---------------------------- MODULE Spec2Model ----------------------------
(***************************************************************************)
(* A model of the text analysis engine of google-docs-mcp                  *)
(* (src/src/document_analyzer.py, class DocumentAnalyzer).                 *)
(*                                                                         *)
(* A Python str is a sequence of atoms.  An atom is a TLA+ string holding  *)
(* one or more characters of the text.  Characters that the code treats    *)
(* specially (whitespace, sentence delimiters, punctuation) are always     *)
(* atoms of their own; an atom of several characters holds letters and     *)
(* digits only.  Concat turns a sequence of atoms into the string of its   *)
(* characters, which is what Python compares when it compares two strs.    *)
(*                                                                         *)
(* Every call returns a record [exc, val]: exc is "" when the call         *)
(* returned val, and the name of the Python exception when it raised.      *)
(***************************************************************************)
EXTENDS Integers, Sequences, FiniteSets, TLC

VARIABLES
    text_content,   \* the text argument: a Python value [type, value]
    options,        \* the options argument: None or Dict(keys to values)
    top_n,          \* the top_n argument of _extract_keywords
    max_sentences,  \* the max_sentences argument of _generate_summary
    document_data,  \* the document tree given to extract_tables
    pc,             \* "call" before the call, "done" after it
    result,         \* what the call produced: [exc, val]
    actor_input,    \* the input of the Actor run
    request,        \* the arguments of a request to the server or the client
    locals,         \* the local variables of the function that is running
    trace,          \* the calls made so far to the collaborators, in order
    document        \* the text of the document held by the Google Docs service

vars == <<text_content, options, top_n, max_sentences, document_data, pc, result,
          actor_input, request, locals, trace, document>>

---------------------------------------------------------------------------
(* Bounds of the model.                                                    *)

MaxStatLen == 4

MaxPieces == 4

MaxSummaryArg == 2

MaxKeywordPieces == 4

MaxTopNArg == 2

MaxTreeSize == 4

MaxTextPieces == 1

MaxLinkPieces == 6

MaxLanguagePieces == 3

MaxLines == 3

---------------------------------------------------------------------------
(* Python values and exceptions.                                           *)

Str(s) == [type |-> "str", value |-> s]

Returned(v) == [exc |-> "", val |-> v]

Raised(e) == [exc |-> e, val |-> <<>>]

NoResult == Returned(<<>>)

\* the type defines strip, lower, split, replace (str, bytes, UserString)
HasStrMethods(t) == t \in {"str", "bytes", "UserString"}

\* those methods of the type accept a str argument (bytes wants bytes)
AcceptsStrArg(t) == t \in {"str", "UserString"}

\* the re module's functions accept the value under a str pattern
RegexAccepts(t) == t = "str"

---------------------------------------------------------------------------
(* Strings: sequences of atoms.                                            *)

RECURSIVE Concat(_)
Concat(s) == IF s = <<>> THEN "" ELSE Head(s) \o Concat(Tail(s))

\* the atom of the one character U+2022 (a bullet), which a TLA+ string cannot hold
Bullet == "\\u2022"

\* the number of characters of an atom
CharLen(a) == IF a = Bullet THEN 1 ELSE Len(a)

\* len(s)
RECURSIVE StrLen(_)
StrLen(s) == IF s = <<>> THEN 0 ELSE CharLen(Head(s)) + StrLen(Tail(s))

\* the whitespace characters (str.isspace, the class \s)
SpaceChars == {" ", "\n", "\t"}

IsSpace(c) == c \in SpaceChars

\* the character class [.!?]
SentenceEnds == {".", "!", "?"}

RECURSIVE lstrip(_)
lstrip(s) == IF s # <<>> /\ IsSpace(Head(s)) THEN lstrip(Tail(s)) ELSE s

RECURSIVE rstrip(_)
rstrip(s) ==
    IF s # <<>> /\ IsSpace(s[Len(s)]) THEN rstrip(SubSeq(s, 1, Len(s) - 1)) ELSE s

\* str.strip()
strip(s) == rstrip(lstrip(s))

\* str.replace(c, 'cc'): the character is written twice
RECURSIVE double_char(_, _)
double_char(s, c) ==
    IF s = <<>> THEN <<>>
    ELSE IF Head(s) = c THEN <<c, c>> \o double_char(Tail(s), c)
    ELSE <<Head(s)>> \o double_char(Tail(s), c)

\* str.replace(c, '') for a one-character c
RECURSIVE remove_char(_, _)
remove_char(s, c) ==
    IF s = <<>> THEN <<>>
    ELSE IF Head(s) = c THEN remove_char(Tail(s), c)
    ELSE <<Head(s)>> \o remove_char(Tail(s), c)

\* the least index k >= i of s with s[k] in S; Len(s)+1 if there is none
find_in(s, i, S) ==
    LET hits == {k \in i..Len(s) : s[k] \in S}
    IN  IF hits = {} THEN Len(s) + 1 ELSE CHOOSE k \in hits : \A m \in hits : k <= m

\* the least index k >= i of s with s[k] not in S; Len(s)+1 if there is none
find_not_in(s, i, S) ==
    LET hits == {k \in i..Len(s) : s[k] \notin S}
    IN  IF hits = {} THEN Len(s) + 1 ELSE CHOOSE k \in hits : \A m \in hits : k <= m

\* str.split(): the maximal runs of non-whitespace, as sequences of atoms
RECURSIVE split_ws(_)
split_ws(s) ==
    LET t == lstrip(s)
        e == find_in(t, 1, SpaceChars)
    IN  IF t = <<>> THEN <<>>
        ELSE <<SubSeq(t, 1, e - 1)>> \o split_ws(SubSeq(t, e, Len(t)))

\* str.split(sep) for a one-character sep: empty pieces are kept
RECURSIVE split_on(_, _)
split_on(s, sep) ==
    LET i == find_in(s, 1, {sep})
    IN  IF i > Len(s) THEN <<s>>
        ELSE <<SubSeq(s, 1, i - 1)>> \o split_on(SubSeq(s, i + 1, Len(s)), sep)

\* the least i >= from with s[i] = s[i+1] = c; Len(s)+1 if none
RECURSIVE find_pair(_, _, _)
find_pair(s, from, c) ==
    IF from + 1 > Len(s) THEN Len(s) + 1
    ELSE IF s[from] = c /\ s[from + 1] = c THEN from
    ELSE find_pair(s, from + 1, c)

\* str.split(c + c): the separator is two characters, matched left to right
RECURSIVE split_on_pair(_, _)
split_on_pair(s, c) ==
    LET i == find_pair(s, 1, c)
    IN  IF i > Len(s) THEN <<s>>
        ELSE <<SubSeq(s, 1, i - 1)>> \o split_on_pair(SubSeq(s, i + 2, Len(s)), c)

\* re.split(r'[.!?]+', s): split at every maximal run of sentence delimiters
RECURSIVE re_split_sentences(_)
re_split_sentences(s) ==
    LET i == find_in(s, 1, SentenceEnds)
        j == find_not_in(s, i, SentenceEnds)
    IN  IF i > Len(s) THEN <<s>>
        ELSE <<SubSeq(s, 1, i - 1)>> \o re_split_sentences(SubSeq(s, j, Len(s)))

\* the concatenation of a list of lists (of a list of strings: ''.join)
RECURSIVE Flatten(_)
Flatten(ps) == IF ps = <<>> THEN <<>> ELSE Head(ps) \o Flatten(Tail(ps))

\* s.strip() is not empty
NonBlank(s) == strip(s) # <<>>

RECURSIVE SumLen(_)
SumLen(ws) == IF ws = <<>> THEN 0 ELSE StrLen(Head(ws)) + SumLen(Tail(ws))

---------------------------------------------------------------------------
(* Numbers.  A Python float that the code rounds is kept as the integer    *)
(* number of units of its last decimal: round(x, 2) in hundredths,         *)
(* round(x, 1) in tenths.                                                  *)

\* a / b: Python raises ZeroDivisionError for b = 0
TrueDiv(a, b) ==
    IF b = 0 THEN [exc |-> "ZeroDivisionError", num |-> 0, den |-> 1]
    ELSE [exc |-> "", num |-> a, den |-> b]

Zero == [exc |-> "", num |-> 0, den |-> 1]

\* round(num / den * scale) to the nearest integer, ties to even: Python's round
\* of the double num / den to 2 decimals for scale 100.  (A tie has den a
\* multiple of 8; under 40 words or sentences the quotient is then a double
\* exactly, and round goes to the even neighbour.)
RoundScaled(q, scale) ==
    LET p == q.num * scale
        f == p \div q.den
        r2 == 2 * (p % q.den)
    IN  IF r2 < q.den THEN f
        ELSE IF r2 > q.den THEN f + 1
        ELSE IF f % 2 = 0 THEN f ELSE f + 1

FirstExc(es) ==
    IF \A i \in 1..Len(es) : es[i] = "" THEN ""
    ELSE es[CHOOSE i \in 1..Len(es) : es[i] # "" /\ \A j \in 1..(i - 1) : es[j] = ""]

\* the exceptions of a list of results, in order
excs_of(rs) == [k \in 1..Len(rs) |-> rs[k].exc]

\* the values of a list of results, in order
vals_of(rs) == [k \in 1..Len(rs) |-> rs[k].val]

---------------------------------------------------------------------------
(* _calculate_statistics                                                   *)

avg_word_length(words, word_count) ==
    IF word_count > 0 THEN TrueDiv(SumLen(words), word_count) ELSE Zero

avg_sentence_length(word_count, sentence_count) ==
    IF sentence_count > 0 THEN TrueDiv(word_count, sentence_count) ELSE Zero

\* round(word_count / 200, 1), in tenths.  word_count / 200 lies halfway between
\* two tenths when word_count is 10, 30, 50, ...; round then goes by the double
\* nearest to the quotient, which lies above the halfway point for the word
\* counts of ReadingTimeTiesUp and at or below it (an even tenth below) for the
\* other ones under 100.
ReadingTimeTiesUp == {10, 90}

reading_time(word_count) ==
    LET f == word_count \div 20
        r == word_count % 20
    IN  IF r < 10 THEN f
        ELSE IF r > 10 THEN f + 1
        ELSE IF word_count \in ReadingTimeTiesUp THEN f + 1 ELSE f

\* a line count that leaves the empty lines out
line_count_nonblank(clean_text) == Len(SelectSeq(split_on(clean_text, "\n"), NonBlank))

line_count(clean_text) == Len(split_on(clean_text, "\n"))

calculate_statistics(text) ==
    LET clean_text == strip(text)
        char_count == StrLen(clean_text)
        char_count_no_spaces == StrLen(remove_char(remove_char(clean_text, " "), "\n"))
        words == split_ws(clean_text)
        word_count == Len(words)
        paragraphs == SelectSeq(split_on_pair(clean_text, "\n"), NonBlank)
        sentences == re_split_sentences(clean_text)
        sentence_count == Len(SelectSeq(sentences, NonBlank))
        awl == avg_word_length(words, word_count)
        asl == avg_sentence_length(word_count, sentence_count)
        exc == FirstExc(<<awl.exc, asl.exc>>)
    IN  IF exc # "" THEN Raised(exc)
        ELSE Returned([
            characterCount |-> char_count,
            characterCountNoSpaces |-> char_count_no_spaces,
            wordCount |-> word_count,
            lineCount |-> line_count(clean_text),
            paragraphCount |-> Len(paragraphs),
            sentenceCount |-> sentence_count,
            averageWordLength |-> RoundScaled(awl, 100),
            averageSentenceLength |-> RoundScaled(asl, 100),
            readingTime |-> reading_time(word_count)])

---------------------------------------------------------------------------
(* _extract_keywords                                                       *)

\* def _extract_keywords(self, text, top_n: int = 20)
DefaultTopN == 20

\* a word is kept if len(word) > 3
MinKeywordLength == 3

\* the atoms with an upper-case letter, each with its str.lower()
LowerCased ==
    { <<"Data", "data">>, <<"KEYS", "keys">>, <<"This", "this">>, <<"The", "the">>,
      <<"LOUD", "loud">>, <<"Y", "y">>, <<"El", "el">>, <<"A", "a">> }

\* str.lower() of an atom
lower_atom(a) ==
    IF \E p \in LowerCased : p[1] = a
    THEN (CHOOSE p \in LowerCased : p[1] = a)[2]
    ELSE a

\* text.lower()
lower(s) == [i \in 1..Len(s) |-> lower_atom(s[i])]

\* the characters of the model's texts that are neither \w nor \s
PunctChars ==
    {".", "!", "?", ",", ";", ":", "/", "-", "*", "(", ")", "%", "#", "<", "|",
     "[", "]", Bullet}

\* re.sub(r'[^\w\s]', ' ', s)
sub_punct(s) == [i \in 1..Len(s) |-> IF s[i] \in PunctChars THEN " " ELSE s[i]]

\* the stop words of lines 124-137
stop_words ==
    {
      "the", "be", "to", "of", "and", "a", "in", "that", "have", "i", "it",
      "for", "not", "on", "with", "he", "as", "you", "do", "at", "this",
      "but", "his", "by", "from", "they", "we", "say", "her", "she", "or",
      "an", "will", "my", "one", "all", "would", "there", "their", "what",
      "so", "up", "out", "if", "about", "who", "get", "which", "go", "me",
      "when", "make", "can", "like", "time", "no", "just", "him", "know",
      "take", "people", "into", "year", "your", "good", "some", "could",
      "them", "see", "other", "than", "then", "now", "look", "only", "come",
      "its", "over", "think", "also", "back", "after", "use", "two", "how",
      "our", "work", "first", "well", "way", "even", "new", "want",
      "because", "any", "these", "give", "day", "most", "us", "is", "was",
      "are", "been", "has", "had", "were", "said", "did", "having", "may",
      "should" }

\* the words of a list of split pieces, as strings
RECURSIVE strings_of(_)
strings_of(ws) == IF ws = <<>> THEN <<>> ELSE <<Concat(Head(ws))>> \o strings_of(Tail(ws))

is_keyword_from_3(word) == Len(word) >= MinKeywordLength /\ word \notin stop_words

\* len(word) > 3 and word not in stop_words
is_keyword(word) == Len(word) > MinKeywordLength /\ word \notin stop_words

\* Counter(keywords)[word]
count_of(keywords, word) == Cardinality({k \in 1..Len(keywords) : keywords[k] = word})

\* where word entered the Counter: its first index in keywords
first_seen(keywords, word) ==
    CHOOSE k \in 1..Len(keywords) :
        keywords[k] = word /\ \A m \in 1..(k - 1) : keywords[m] # word

\* an order that puts, of two words of equal count, the one met last first
more_common_last_seen(keywords, v, w) ==
    \/ count_of(keywords, v) > count_of(keywords, w)
    \/ /\ count_of(keywords, v) = count_of(keywords, w)
       /\ first_seen(keywords, v) > first_seen(keywords, w)

\* most_common puts v before w: the greater count, and for equal counts the
\* one the Counter met first
more_common(keywords, v, w) ==
    \/ count_of(keywords, v) > count_of(keywords, w)
    \/ /\ count_of(keywords, v) = count_of(keywords, w)
       /\ first_seen(keywords, v) < first_seen(keywords, w)

\* Counter(keywords).most_common(top_n), as the sequence of its words (top_n >= 0)
most_common(keywords, n) ==
    LET distinct == {keywords[k] : k \in 1..Len(keywords)}
        rank(w) == Cardinality({v \in distinct : more_common(keywords, v, w)})
        size == IF Cardinality(distinct) < n THEN Cardinality(distinct) ELSE n
    IN  [k \in 1..size |-> CHOOSE w \in distinct : rank(w) = k - 1]

relevance_truncated(count, total) ==
    LET q == TrueDiv(count, total)
    IN  IF q.exc # "" THEN q ELSE [exc |-> "", num |-> (count * 10000) \div total, den |-> 1]

\* round(count / len(keywords) * 100, 2), in hundredths
relevance(count, total) ==
    LET q == TrueDiv(count, total)
    IN  IF q.exc # "" THEN q ELSE [exc |-> "", num |-> RoundScaled(q, 10000), den |-> 1]

extract_keywords(text, n) ==
    LET clean_text == sub_punct(lower(text))
        words == strings_of(split_ws(clean_text))
        keywords == SelectSeq(words, is_keyword)
        top_keywords == most_common(keywords, n)
        rel == [k \in 1..Len(top_keywords) |->
                   relevance(count_of(keywords, top_keywords[k]), Len(keywords))]
        exc == FirstExc([k \in 1..Len(top_keywords) |-> rel[k].exc])
    IN  IF exc # "" THEN Raised(exc)
        ELSE Returned([k \in 1..Len(top_keywords) |->
                [keyword |-> top_keywords[k],
                 frequency |-> count_of(keywords, top_keywords[k]),
                 relevance |-> rel[k].num]])

---------------------------------------------------------------------------
(* _generate_summary                                                       *)

\* def _generate_summary(self, text, max_sentences: int = 5)
DefaultMaxSentences == 5

\* a sentence is kept if len(s.strip()) > 20
MinSentenceLength == 20

\* only the first 50 sentences are scored
MaxCandidates == 50

\* the length test with >= in the place of >
LongEnough_inclusive(s) == StrLen(strip(s)) >= MinSentenceLength

LongEnough(s) == StrLen(strip(s)) > MinSentenceLength

RECURSIVE strip_all(_)
strip_all(ss) == IF ss = <<>> THEN <<>> ELSE <<strip(Head(ss))>> \o strip_all(Tail(ss))

\* [s.strip() for s in re.split(r'[.!?]+', text) if len(s.strip()) > 20]
retained_sentences(text) == strip_all(SelectSeq(re_split_sentences(text), LongEnough))

\* '. '.join(sentences)
RECURSIVE join_sentences(_)
join_sentences(ss) ==
    IF ss = <<>> THEN ""
    ELSE IF Len(ss) = 1 THEN Concat(ss[1])
    ELSE Concat(ss[1]) \o ". " \o join_sentences(Tail(ss))

\* '. '.join(sentences) + '.'
summary_text(ss) == join_sentences(ss) \o "."

\* The score of the sentence at index i (from 0) of n sentences, with w words,
\* is w * (1 - i / n * 0.5) = w * (2n - i) / 2n: score_num is its numerator.
score_num(n, i, w) == w * (2 * n - i)

\* <<n, i, wi, j, wj>> with i < j: the two scores are equal as fractions, and
\* the double computed for index j is above the one computed for index i
\* (all such cases for n <= 12 and at most 8 words)
ScoreTiesLaterAbove ==
    { <<3, 1, 4, 2, 5>>, <<5, 3, 6, 4, 7>>, <<6, 2, 4, 4, 5>>, <<9, 2, 7, 4, 8>>,
      <<9, 2, 3, 6, 4>>, <<9, 2, 6, 6, 8>>, <<9, 3, 4, 6, 5>>, <<9, 4, 5, 8, 7>>,
      <<10, 6, 6, 8, 7>>, <<11, 2, 4, 6, 5>>, <<11, 2, 3, 7, 4>>,
      <<11, 2, 6, 7, 8>>, <<11, 4, 5, 7, 6>>, <<12, 4, 4, 8, 5>> }

\* the score (a double) at index i is greater than the score at index j
score_above(n, i, wi, j, wj) ==
    \/ score_num(n, i, wi) > score_num(n, j, wj)
    \/ /\ score_num(n, i, wi) = score_num(n, j, wj)
       /\ j < i
       /\ <<n, j, wj, i, wi>> \in ScoreTiesLaterAbove

\* the indices (from 1) of the sentences that are scored
candidates(sentences) ==
    1..(IF Len(sentences) < MaxCandidates THEN Len(sentences) ELSE MaxCandidates)

\* len(sentence.split())
word_count_of(sentence) == Len(split_ws(sentence))

\* scored_sentences.sort(reverse=True, key=lambda x: x[0]) puts the sentence at
\* index i before the one at index j: the sort is stable
sorted_before(sentences, i, j) ==
    LET n == Len(sentences)
        wi == word_count_of(sentences[i])
        wj == word_count_of(sentences[j])
    IN  \/ score_above(n, i - 1, wi, j - 1, wj)
        \/ ~score_above(n, j - 1, wj, i - 1, wi) /\ i < j

\* the indices of scored_sentences[:max_sentences]
top_indices(sentences, max) ==
    {i \in candidates(sentences) :
        Cardinality({j \in candidates(sentences) : sorted_before(sentences, j, i)}) < max}

\* top_sentences, as the set of its strings
top_sentences(sentences, max) == {Concat(sentences[i]) : i \in top_indices(sentences, max)}

\* the loop over sentences that appends those in top_sentences and breaks at
\* max_sentences of them (max_sentences >= 1)
summary_sentences(sentences, max) ==
    LET top == top_sentences(sentences, max)
        InTop(x) == Concat(x) \in top
        found == SelectSeq(sentences, InTop)
    IN  SubSeq(found, 1, IF Len(found) < max THEN Len(found) ELSE max)

generate_summary(text, max) ==
    LET sentences == retained_sentences(text)
    IN  IF Len(sentences) <= max THEN Returned(summary_text(sentences))
        ELSE Returned(summary_text(summary_sentences(sentences, max)))

---------------------------------------------------------------------------
(* _extract_links.  In a text with links the letters of a scheme are the   *)
(* atom "http" or "https", and every other atom is one character.          *)

\* the characters of the model's texts outside the class
\* [a-zA-Z] | [0-9] | [$-_@.&+] | [!*\\(\\),] (the range $-_ holds the ASCII
\* punctuation from $ to _, the digits and the capitals)
NonUrlChars == SpaceChars \cup {"#", "|", Bullet}

\* http[s]?:// and one character of the class match at index i of s
url_starts(s, i) ==
    /\ s[i] \in {"http", "https"}
    /\ i + 4 <= Len(s)
    /\ s[i + 1] = ":" /\ s[i + 2] = "/" /\ s[i + 3] = "/"
    /\ s[i + 4] \notin NonUrlChars

\* re.findall(url_pattern, text) from index i on: the matches from left to
\* right, each as long as the class allows, none overlapping another
RECURSIVE find_urls(_, _)
find_urls(s, i) ==
    IF i > Len(s) THEN <<>>
    ELSE IF url_starts(s, i)
         THEN LET e == find_in(s, i + 4, NonUrlChars)
              IN  <<SubSeq(s, i, e - 1)>> \o find_urls(s, e)
         ELSE find_urls(s, i + 1)

\* set(urls)
unique_urls(s) == {find_urls(s, 1)[k] : k \in 1..Len(find_urls(s, 1))}

\* the orders in which list(set(urls)) can hold the elements of the set
Orderings(S) ==
    {f \in [1..Cardinality(S) -> S] : \A i, j \in 1..Cardinality(S) : i # j => f[i] # f[j]}

\* urlparse(url).netloc: what follows :// up to the first / ? or #
netloc(url) == SubSeq(url, 5, find_in(url, 5, {"/", "?", "#"}) - 1)

\* urlparse raises ValueError('Invalid IPv6 URL') for a netloc with one of [ and
\* ] and not the other.  (Python 3.11 also checks the host between a [ and a ].)
urlparse(url) ==
    LET loc == netloc(url)
        has(c) == \E k \in 1..Len(loc) : loc[k] = c
    IN  IF has("[") # has("]") THEN Raised("ValueError")
        ELSE Returned([netloc |-> Concat(loc), scheme |-> url[1]])

\* a count of the matches of the pattern that are url
count_of_matches(s, i, url) ==
    Cardinality({k \in 1..Len(find_urls(s, i)) : find_urls(s, i)[k] = url})

\* text.count(url): the occurrences of url in s from index i on, from left to
\* right, none overlapping another
RECURSIVE count_from(_, _, _)
count_from(s, i, url) ==
    IF i + Len(url) - 1 > Len(s) THEN 0
    ELSE IF SubSeq(s, i, i + Len(url) - 1) = url
         THEN 1 + count_from(s, i + Len(url), url)
         ELSE count_from(s, i + 1, url)

\* _extract_links with unique_urls in the given order
extract_links(text, order) ==
    LET parsed == [k \in 1..Len(order) |-> urlparse(order[k])]
        exc == FirstExc(excs_of(parsed))
    IN  IF exc # "" THEN Raised(exc)
        ELSE Returned([k \in 1..Len(order) |->
                [url |-> Concat(order[k]),
                 domain |-> parsed[k].val.netloc,
                 scheme |-> parsed[k].val.scheme,
                 count |-> count_from(text, 1, order[k])]])

---------------------------------------------------------------------------
(* _detect_language                                                        *)

english_words == {"the", "is", "and", "to", "of", "in", "that", "for"}

spanish_words == {"el", "la", "de", "que", "y", "en", "es", "por"}

\* two of the words have a letter outside ASCII, written here as Python escapes
french_words == {"le", "de", "un", "et", "\\u00eatre", "\\u00e0", "il", "que"}

german_words == {"der", "die", "und", "in", "den", "von", "zu", "das"}

\* max(en_count, es_count, fr_count, de_count)
max_of4(a, b, c, d) ==
    LET m1 == IF a >= b THEN a ELSE b
        m2 == IF c >= d THEN c ELSE d
    IN  IF m1 >= m2 THEN m1 ELSE m2

\* a chain that looks at the languages in the order de, fr, es, en
pick_language_from_last(en_count, es_count, fr_count, de_count) ==
    LET max_count == max_of4(en_count, es_count, fr_count, de_count)
    IN  IF max_count = 0 THEN "unknown"
        ELSE IF max_count = de_count THEN "de"
        ELSE IF max_count = fr_count THEN "fr"
        ELSE IF max_count = es_count THEN "es"
        ELSE "en"

\* the chain of if / elif on the counts
pick_language(en_count, es_count, fr_count, de_count) ==
    LET max_count == max_of4(en_count, es_count, fr_count, de_count)
    IN  IF max_count = 0 THEN "unknown"
        ELSE IF max_count = en_count THEN "en"
        ELSE IF max_count = es_count THEN "es"
        ELSE IF max_count = fr_count THEN "fr"
        ELSE IF max_count = de_count THEN "de"
        ELSE "unknown"

detect_language(text) ==
    LET split_words == strings_of(split_ws(lower(text)))
        words == {split_words[k] : k \in 1..Len(split_words)}
    IN  pick_language(Cardinality(words \cap english_words),
                      Cardinality(words \cap spanish_words),
                      Cardinality(words \cap french_words),
                      Cardinality(words \cap german_words))

---------------------------------------------------------------------------
(* _analyze_structure and _guess_heading_level                             *)

\* the atoms of capital letters only, and those with capital and small letters
UpperAtoms == {"KEYS", "LOUD", "Y", "A"}

MixedAtoms == {"Data", "This", "The", "El"}

\* the atoms of digits only
DigitAtoms == {"0", "1", "2", "3", "4", "5", "6", "7", "8", "9", "10", "12"}

\* the one-letter atoms of the class [a-z]
SmallLetters ==
    {"a", "b", "c", "d", "e", "f", "g", "h", "i", "j", "k", "l", "m", "n", "o",
     "p", "q", "r", "s", "t", "u", "v", "w", "x", "y", "z"}

\* the atoms without a letter
UncasedAtoms == SpaceChars \cup PunctChars \cup DigitAtoms \cup {"_"}

has_upper(a) == a \in UpperAtoms \cup MixedAtoms

has_lower(a) == a \notin UpperAtoms \cup UncasedAtoms

\* str.isupper(): a cased character, and no cased character in lower case
isupper(s) ==
    /\ \E k \in 1..Len(s) : has_upper(s[k])
    /\ \A k \in 1..Len(s) : ~has_lower(s[k])

guess_heading_level_upto_4(text) ==
    IF isupper(text) THEN 1
    ELSE IF Len(split_ws(text)) <= 4 THEN 2
    ELSE 3

guess_heading_level(text) ==
    IF isupper(text) THEN 1
    ELSE IF Len(split_ws(text)) <= 5 THEN 2
    ELSE 3

is_heading_from_3(lines, i) ==
    LET words == Len(split_ws(strip(lines[i])))
    IN  /\ 3 <= words /\ words <= 10
        /\ i + 1 <= Len(lines)
        /\ Len(split_ws(strip(lines[i + 1]))) > 10

\* the line at index i (from 1) of lines is a potential heading
is_heading(lines, i) ==
    LET words == Len(split_ws(strip(lines[i])))
    IN  /\ 3 < words /\ words <= 10
        /\ i + 1 <= Len(lines)
        /\ Len(split_ws(strip(lines[i + 1]))) > 10

\* the index after the leading whitespace of line (\s*)
after_space(line, i) == find_not_in(line, i, SpaceChars)

\* r'^\s*[\-\*\•]\s+' matches line
is_bullet(line) ==
    LET k == after_space(line, 1)
    IN  /\ k + 1 <= Len(line)
        /\ line[k] \in {"-", "*", Bullet}
        /\ line[k + 1] \in SpaceChars

\* r'^\s*\d+[\.\)]\s+' matches line
is_numbered(line) ==
    LET k == after_space(line, 1)
        e == find_not_in(line, k, DigitAtoms)
    IN  /\ e > k
        /\ e + 1 <= Len(line)
        /\ line[e] \in {".", ")"}
        /\ line[e + 1] \in SpaceChars

\* r'^\s*[a-z][\.\)]\s+' matches line
is_lettered(line) ==
    LET k == after_space(line, 1)
    IN  /\ k + 2 <= Len(line)
        /\ line[k] \in SmallLetters
        /\ line[k + 1] \in {".", ")"}
        /\ line[k + 2] \in SpaceChars

list_type_of_three(line) ==
    IF is_bullet(line) THEN "bullet"
    ELSE IF is_numbered(line) THEN "numbered" ELSE "lettered"

\* the first pattern of list_patterns that matches decides the type
list_type(line) == IF is_bullet(line) THEN "bullet" ELSE "numbered"

has_structure_of_both(potential_headings, list_items) ==
    Len(potential_headings) > 0 /\ Len(list_items) > 0

\* len(potential_headings) > 0 or len(list_items) > 0
has_structure(potential_headings, list_items) ==
    Len(potential_headings) > 0 \/ Len(list_items) > 0

analyze_structure(text) ==
    LET lines == split_on(text, "\n")
        heading_at == SelectSeq([i \in 1..Len(lines) |-> i],
                                LAMBDA i : is_heading(lines, i))
        item_at == SelectSeq([i \in 1..Len(lines) |-> i],
                             LAMBDA i : is_bullet(lines[i]) \/ is_numbered(lines[i])
                                          \/ is_lettered(lines[i]))
        potential_headings ==
            [k \in 1..Len(heading_at) |->
                [text |-> Concat(strip(lines[heading_at[k]])),
                 position |-> heading_at[k] - 1,
                 level |-> guess_heading_level(strip(lines[heading_at[k]]))]]
        list_items ==
            [k \in 1..Len(item_at) |->
                [text |-> Concat(strip(lines[item_at[k]])),
                 position |-> item_at[k] - 1,
                 type |-> list_type(lines[item_at[k]])]]
    IN  [headings |-> potential_headings,
         listItems |-> list_items,
         hasStructure |-> has_structure(potential_headings, list_items)]

---------------------------------------------------------------------------
(* extract_tables and _parse_table.  A mapping is a function from its keys *)
(* (strings) to its values; a mapping without keys is << >>.               *)

\* d.get(k, [])
Get(d, k) == IF k \in DOMAIN d THEN d[k] ELSE <<>>

\* element['textRun']['content']
run_content(element) ==
    IF "content" \in DOMAIN element.textRun THEN Returned(element.textRun.content)
    ELSE Raised("KeyError")

\* what one element of a paragraph appends to cell_text: a list of runs
element_runs(element) ==
    IF "textRun" \in DOMAIN element THEN <<run_content(element)>> ELSE <<>>

\* what one content item of a cell appends to cell_text
content_runs(content) ==
    IF "paragraph" \in DOMAIN content
    THEN LET elements == Get(content.paragraph, "elements")
         IN  Flatten([k \in 1..Len(elements) |-> element_runs(elements[k])])
    ELSE <<>>

\* ''.join(cell_text).strip() of one cell
cell_text(cell) ==
    LET contents == Get(cell, "content")
        runs == Flatten([k \in 1..Len(contents) |-> content_runs(contents[k])])
        exc == FirstExc(excs_of(runs))
    IN  IF exc # "" THEN Raised(exc)
        ELSE Returned(Concat(strip(Flatten(vals_of(runs)))))

\* the cells list of one row
row_cells(row) ==
    LET cells == Get(row, "tableCells")
        texts == [k \in 1..Len(cells) |-> cell_text(cells[k])]
        exc == FirstExc(excs_of(texts))
    IN  IF exc # "" THEN Raised(exc) ELSE Returned(vals_of(texts))

column_count_of_last(rows) == IF rows # <<>> THEN Len(rows[Len(rows)]) ELSE 0

\* len(rows[0]) if rows else 0
column_count(rows) == IF rows # <<>> THEN Len(rows[1]) ELSE 0

parse_table(table_element) ==
    LET table_rows == Get(table_element, "tableRows")
        rows == [k \in 1..Len(table_rows) |-> row_cells(table_rows[k])]
        exc == FirstExc(excs_of(rows))
    IN  IF exc # "" THEN Raised(exc)
        ELSE Returned([rows |-> Len(rows),
                       columns |-> column_count(vals_of(rows)),
                       data |-> vals_of(rows)])

\* 'table' in element
is_table(element) == "table" \in DOMAIN element

extract_tables(data) ==
    IF "body" \notin DOMAIN data \/ "content" \notin DOMAIN data.body
    THEN Returned(<<>>)
    ELSE LET elements == SelectSeq(data.body.content, is_table)
             tables == [k \in 1..Len(elements) |-> parse_table(elements[k].table)]
             exc == FirstExc(excs_of(tables))
         IN  IF exc # "" THEN Raised(exc) ELSE Returned(vals_of(tables))

---------------------------------------------------------------------------
(* analyze_document.  The text is a Python value: nothing in the code      *)
(* looks at its type, so a value of another type goes as far as the first  *)
(* operation that its type does not have or that does not accept it.       *)

None == [type |-> "NoneType", value |-> <<>>]

Dict(d) == [type |-> "dict", value |-> d]

\* the values of a flag in the model, written as Python literals
FalsyValues == {"False", "0"}

Truthy(v) == v \notin FalsyValues

get_without_default(opts, key, default) ==
    IF key \in DOMAIN opts THEN opts[key] ELSE "False"

\* options.get(key, default)
get(opts, key, default) ==
    IF key \in DOMAIN opts THEN opts[key] ELSE default

\* _calculate_statistics(text): text.strip(), clean_text.replace(' ', ''),
\* re.split(r'[.!?]+', clean_text)
statistics_on(text) ==
    IF ~HasStrMethods(text.type) THEN Raised("AttributeError")
    ELSE IF ~AcceptsStrArg(text.type) THEN Raised("TypeError")
    ELSE IF ~RegexAccepts(text.type) THEN Raised("TypeError")
    ELSE calculate_statistics(text.value)

\* _extract_keywords(text): text.lower(), re.sub(r'[^\w\s]', ' ', ...)
keywords_on(text) ==
    IF ~HasStrMethods(text.type) THEN Raised("AttributeError")
    ELSE IF ~RegexAccepts(text.type) THEN Raised("TypeError")
    ELSE extract_keywords(text.value, DefaultTopN)

\* _generate_summary(text): re.split(r'[.!?]+', text)
summary_on(text) ==
    IF ~RegexAccepts(text.type) THEN Raised("TypeError")
    ELSE generate_summary(text.value, DefaultMaxSentences)

\* _extract_links(text): re.findall(url_pattern, text)
links_on(text, order) ==
    IF ~RegexAccepts(text.type) THEN Raised("TypeError")
    ELSE extract_links(text.value, order)

\* _detect_language(text): text.lower().split(); the words of a bytes value are
\* bytes, and none is equal to a str of the four word sets
language_on(text) ==
    IF ~HasStrMethods(text.type) THEN Raised("AttributeError")
    ELSE IF ~AcceptsStrArg(text.type) THEN Returned("unknown")
    ELSE Returned(detect_language(text.value))

\* _analyze_structure(text): text.split('\n')
structure_on(text) ==
    IF ~HasStrMethods(text.type) THEN Raised("AttributeError")
    ELSE IF ~AcceptsStrArg(text.type) THEN Raised("TypeError")
    ELSE Returned(analyze_structure(text.value))

\* the sets a call of _extract_links can build from the text
url_sets(text) == IF text.type = "str" THEN unique_urls(text.value) ELSE {}

wordCount_default == "True"

flag_default == "False"

\* the analyses in the order of the code: the key of the report, whether the
\* options ask for it, and its result
analyses(text, opts, order) ==
    <<[key |-> "statistics",
       run |-> Truthy(get(opts, "wordCount", wordCount_default)),
       res |-> statistics_on(text)],
      [key |-> "keywords",
       run |-> Truthy(get(opts, "extractKeywords", flag_default)),
       res |-> keywords_on(text)],
      [key |-> "summary",
       run |-> Truthy(get(opts, "summarize", flag_default)),
       res |-> summary_on(text)],
      [key |-> "links",
       run |-> Truthy(get(opts, "extractLinks", flag_default)),
       res |-> links_on(text, order)],
      [key |-> "language",
       run |-> Truthy(get(opts, "detectLanguage", flag_default)),
       res |-> language_on(text)],
      [key |-> "structure",
       run |-> TRUE,
       res |-> structure_on(text)]>>

is_run_if_asked(analysis) == analysis.run /\ analysis.key # "structure"

\* an analysis is not run again once a call of the instance has run it
is_run_first_time(analysis) ==
    /\ analysis.run
    /\ \A k \in 1..Len(trace) : trace[k].key # analysis.key

\* the condition of the block of an analysis holds
is_run(analysis) == analysis.run

\* analyze_document(text, options), with list(set(urls)) in the given
\* order: the first exception of an analysis that runs leaves the call
analyze_document(text, given, order) ==
    LET opts == IF given = None THEN <<>> ELSE given.value
        ran == SelectSeq(analyses(text, opts, order), is_run)
        results == [k \in 1..Len(ran) |-> ran[k].res]
        exc == FirstExc(excs_of(results))
        keys == {ran[k].key : k \in 1..Len(ran)}
    IN  IF exc # "" THEN Raised(exc)
        ELSE Returned([key \in keys |->
                 results[CHOOSE k \in 1..Len(ran) : ran[k].key = key].val])

---------------------------------------------------------------------------
(* SpecStats: _calculate_statistics applied to every text of at most       *)
(* MaxStatLen characters over StatChars.                                   *)

StatChars == {"a", " ", "\n", "\t", "."}

SeqsUpTo(S, n) == UNION {[1..k -> S] : k \in 0..n}

NoOptions == <<>>

NoDocument == <<>>

NoInput == <<>>

NoRequest == <<>>

NoLocals == <<>>

NoCalls == <<>>

NoText == <<>>

InitStats ==
    /\ text_content \in {Str(s) : s \in SeqsUpTo(StatChars, MaxStatLen)}
    /\ options = NoOptions
    /\ top_n = 0
    /\ max_sentences = 0
    /\ document_data = NoDocument
    /\ pc = "call"
    /\ result = NoResult
    /\ actor_input = NoInput
    /\ request = NoRequest
    /\ locals = NoLocals
    /\ trace = NoCalls
    /\ document = NoText

CalculateStatistics ==
    /\ pc = "call"
    /\ result' = calculate_statistics(text_content.value)
    /\ pc' = "done"
    /\ UNCHANGED <<text_content, options, top_n, max_sentences, document_data>>
    /\ UNCHANGED <<actor_input, request, locals, trace, document>>

NextStats == CalculateStatistics

SpecStats == InitStats /\ [][NextStats]_vars

\* the statistics of the last call
stats == result.val

StatsDone == pc = "done" /\ result.exc = ""

\* the indices of the line feeds of s
LineFeeds(s) == {i \in 1..Len(s) : s[i] = "\n"}

\* the indices of the characters of s that are not whitespace
Inked(s) == {i \in 1..Len(s) : s[i] \notin SpaceChars}

(* C2: for the empty string every field of the statistics is 0.  The code  *)
(* reports lineCount 1: ''.split('\n') is [''].                            *)
C2_EmptyTextAllZero ==
    (StatsDone /\ text_content.value = <<>>) =>
        /\ stats.characterCount = 0
        /\ stats.characterCountNoSpaces = 0
        /\ stats.wordCount = 0
        /\ stats.lineCount = 0
        /\ stats.paragraphCount = 0
        /\ stats.sentenceCount = 0
        /\ stats.averageWordLength = 0
        /\ stats.averageSentenceLength = 0
        /\ stats.readingTime = 0

(* C6 as stated: lineCount is the number of pieces of the text split on    *)
(* the line feed, one more than its line feeds, so that a final line feed  *)
(* counts a further line.                                                  *)
C6_LineCountOfRawText ==
    StatsDone => stats.lineCount = 1 + Cardinality(LineFeeds(text_content.value))

(* C6 as amended: lineCount is the number of pieces of the trimmed text    *)
(* split on the line feed: one more than the line feeds that lie between   *)
(* the first and the last character that is not whitespace (1 for a text   *)
(* of whitespace only).  Line feeds at either end of the text count no     *)
(* line; an empty line inside the text counts.                             *)
C6_LineCountOfTrimmedText ==
    StatsDone =>
        LET s == text_content.value
            inner == {i \in LineFeeds(s) :
                        \E j, k \in Inked(s) : j < i /\ i < k}
        IN  stats.lineCount = 1 + Cardinality(inner)

C6_Witness ==
    /\ StatsDone
    /\ text_content.value = <<"a", "\n", "\n", "a">>
    /\ stats.lineCount = 3

---------------------------------------------------------------------------
(* SpecSummary: _generate_summary applied to the texts made of at most     *)
(* MaxPieces pieces of SummaryPieces, with max_sentences from 1 to         *)
(* MaxSummaryArg.                                                          *)

SummaryPieces ==
    { <<"abcdefghijklmnopqrstu", ".">>,
      <<" ", "abcdefghij", " ", "klmnopqrstu", "!", "?">>,
      <<"abcdefghijklmnopqrst", ".">>,
      <<"ab", " ", "cd", " ", "abcdefghijklmno", "\n", ".">>,
      <<"ab", " ">> }

SummaryTexts == {Flatten(ps) : ps \in SeqsUpTo(SummaryPieces, MaxPieces)}

InitSummary ==
    /\ text_content \in {Str(s) : s \in SummaryTexts}
    /\ options = NoOptions
    /\ top_n = 0
    /\ max_sentences \in 1..MaxSummaryArg
    /\ document_data = NoDocument
    /\ pc = "call"
    /\ result = NoResult
    /\ actor_input = NoInput
    /\ request = NoRequest
    /\ locals = NoLocals
    /\ trace = NoCalls
    /\ document = NoText

GenerateSummary ==
    /\ pc = "call"
    /\ result' = generate_summary(text_content.value, max_sentences)
    /\ pc' = "done"
    /\ UNCHANGED <<text_content, options, top_n, max_sentences, document_data>>
    /\ UNCHANGED <<actor_input, request, locals, trace, document>>

NextSummary == GenerateSummary

SpecSummary == InitSummary /\ [][NextSummary]_vars

---------------------------------------------------------------------------
(* SpecKeywords: _extract_keywords applied to the texts made of at most    *)
(* MaxKeywordPieces pieces of KeywordPieces, with top_n from 0 to          *)
(* MaxTopNArg or the default.                                              *)

KeywordPieces ==
    { <<"data", " ">>, <<"Data", ",">>, <<"keys", "\n">>, <<"this", " ">>,
      <<"abc", " ">>, <<"abc">> }

KeywordTexts == {Flatten(ps) : ps \in SeqsUpTo(KeywordPieces, MaxKeywordPieces)}

InitKeywords ==
    /\ text_content \in {Str(s) : s \in KeywordTexts}
    /\ options = NoOptions
    /\ top_n \in (0..MaxTopNArg) \cup {DefaultTopN}
    /\ max_sentences = 0
    /\ document_data = NoDocument
    /\ pc = "call"
    /\ result = NoResult
    /\ actor_input = NoInput
    /\ request = NoRequest
    /\ locals = NoLocals
    /\ trace = NoCalls
    /\ document = NoText

ExtractKeywords ==
    /\ pc = "call"
    /\ result' = extract_keywords(text_content.value, top_n)
    /\ pc' = "done"
    /\ UNCHANGED <<text_content, options, top_n, max_sentences, document_data>>
    /\ UNCHANGED <<actor_input, request, locals, trace, document>>

NextKeywords == ExtractKeywords

SpecKeywords == InitKeywords /\ [][NextKeywords]_vars

---------------------------------------------------------------------------
(* SpecTables: extract_tables applied to the document trees of at most     *)
(* MaxTreeSize nodes (body elements, rows and cells), with the cells of    *)
(* CellKinds.                                                              *)

TextRun(s) == [textRun |-> [content |-> s]]

Paragraph(es) == [paragraph |-> [elements |-> es]]

CellKinds ==
    { <<>>,
      [content |-> << [sectionBreak |-> <<>>] >>],
      [content |-> << [paragraph |-> <<>>] >>],
      [content |-> << Paragraph(<< [inlineObjectElement |-> <<>>] >>) >>],
      [content |-> << Paragraph(<< [textRun |-> <<>>] >>) >>],
      [content |-> << Paragraph(<< TextRun(<<" ", "a">>), TextRun(<<"b", "\n">>) >>) >>],
      [content |-> << Paragraph(<< TextRun(<<"c", "\n">>) >>),
                      Paragraph(<< TextRun(<<"d", "\n">>) >>) >>] }

\* a row without the tableCells key, or with at most n cells
RowsUpTo(n) == {<<>>} \cup {[tableCells |-> cs] : cs \in SeqsUpTo(CellKinds, n)}

RowSize(row) == 1 + Len(Get(row, "tableCells"))

\* the lists of rows of at most b nodes
RECURSIVE RowSeqs(_)
RowSeqs(b) ==
    IF b <= 0 THEN {<<>>}
    ELSE {<<>>} \cup
         UNION {{<<r>> \o rest : rest \in RowSeqs(b - RowSize(r))} : r \in RowsUpTo(b - 1)}

RECURSIVE RowsSize(_)
RowsSize(rs) == IF rs = <<>> THEN 0 ELSE RowSize(Head(rs)) + RowsSize(Tail(rs))

\* a body element of at most b nodes: a paragraph, or a table without the
\* tableRows key or with rows
BodyElementsUpTo(b) ==
    {[paragraph |-> <<>>], [table |-> <<>>]}
        \cup {[table |-> [tableRows |-> rs]] : rs \in RowSeqs(b - 1)}

ElementSize(e) == 1 + (IF is_table(e) THEN RowsSize(Get(e.table, "tableRows")) ELSE 0)

\* the lists of body elements of at most b nodes
RECURSIVE ElementSeqs(_)
ElementSeqs(b) ==
    IF b <= 0 THEN {<<>>}
    ELSE {<<>>} \cup
         UNION {{<<e>> \o rest : rest \in ElementSeqs(b - ElementSize(e))} :
                    e \in BodyElementsUpTo(b)}

Documents ==
    {<<>>, [title |-> <<"a">>], [body |-> <<>>]}
        \cup {[body |-> [content |-> es]] : es \in ElementSeqs(MaxTreeSize)}

InitTables ==
    /\ text_content = Str(<<>>)
    /\ options = NoOptions
    /\ top_n = 0
    /\ max_sentences = 0
    /\ document_data \in Documents
    /\ pc = "call"
    /\ result = NoResult
    /\ actor_input = NoInput
    /\ request = NoRequest
    /\ locals = NoLocals
    /\ trace = NoCalls
    /\ document = NoText

ExtractTables ==
    /\ pc = "call"
    /\ result' = extract_tables(document_data)
    /\ pc' = "done"
    /\ UNCHANGED <<text_content, options, top_n, max_sentences, document_data>>
    /\ UNCHANGED <<actor_input, request, locals, trace, document>>

NextTables == ExtractTables

SpecTables == InitTables /\ [][NextTables]_vars

\* the summary of the last call
SummaryDone == pc = "done" /\ result.exc = ""

\* the least and the greatest element of a non-empty set of integers
MinOf(S) == CHOOSE x \in S : \A y \in S : x <= y

MaxOf(S) == CHOOSE x \in S : \A y \in S : y <= x

\* the elements of a finite set of integers in increasing order
RECURSIVE Ascending(_)
Ascending(S) == IF S = {} THEN <<>> ELSE <<MinOf(S)>> \o Ascending(S \ {MinOf(S)})

\* where a sentence segment of s starts: a character other than . ! ? that
\* begins s or follows one of them
SegmentStarts(s) ==
    {a \in 1..Len(s) : s[a] \notin SentenceEnds /\ (a = 1 \/ s[a - 1] \in SentenceEnds)}

\* the segment of s that starts at a, without its leading and trailing whitespace
TrimmedSegment(s, a) ==
    LET b == MaxOf({k \in a..Len(s) : \A m \in a..k : s[m] \notin SentenceEnds})
        ink == {k \in a..b : s[k] \notin SpaceChars}
    IN  IF ink = {} THEN <<>> ELSE SubSeq(s, MinOf(ink), MaxOf(ink))

\* the sentences of s the summary works on: trimmed segments of over 20 characters
RetainedOf(s) ==
    LET starts == Ascending({a \in SegmentStarts(s) : StrLen(TrimmedSegment(s, a)) > 20})
    IN  [k \in 1..Len(starts) |-> TrimmedSegment(s, starts[k])]

\* the sentences ss joined by ". " and closed by a period
RECURSIVE JoinedWithPeriods(_)
JoinedWithPeriods(ss) ==
    IF ss = <<>> THEN "."
    ELSE IF Len(ss) = 1 THEN Concat(ss[1]) \o "."
    ELSE Concat(ss[1]) \o ". " \o JoinedWithPeriods(Tail(ss))

\* the number of words of a sentence: its characters that start a word
WordsOf(x) ==
    Cardinality({k \in 1..Len(x) :
        x[k] \notin SpaceChars /\ (k = 1 \/ x[k - 1] \in SpaceChars)})

\* twice the number of sentences times the score of the sentence at index i (from 1)
ScoreOf(ss, i) == WordsOf(ss[i]) * (2 * Len(ss) - (i - 1))

(* C3: with more than max sentences retained, the summary is made of max   *)
(* sentences that have the highest scores among the first 50 retained ones,*)
(* each once, in their original order, joined by '. ' and closed by a      *)
(* period (so the highest-scoring sentence is in it), whether or not some  *)
(* retained sentences have the same text.  The code selects by text, emits *)
(* every occurrence of a selected text, and stops after max of them.       *)
C3_SummaryIsTopScored ==
    LET ss == RetainedOf(text_content.value)
        cand == 1..(IF Len(ss) < 50 THEN Len(ss) ELSE 50)
    IN  (SummaryDone /\ Len(ss) > max_sentences) =>
            \E T \in SUBSET cand :
                /\ Cardinality(T) = max_sentences
                /\ \A i \in T, j \in cand \ T : ScoreOf(ss, i) >= ScoreOf(ss, j)
                /\ result.val = JoinedWithPeriods([k \in 1..Cardinality(T) |->
                                                    ss[Ascending(T)[k]]])

(* C4: when at most max sentences are retained, the summary is all of      *)
(* them, trimmed, in their original order, joined by '. ' and closed by    *)
(* one period.                                                             *)
C4_FewSentencesAllJoined ==
    LET ss == RetainedOf(text_content.value)
    IN  (SummaryDone /\ Len(ss) <= max_sentences) =>
            result.val = JoinedWithPeriods(ss)

C4_Witness ==
    /\ SummaryDone
    /\ max_sentences = 2
    /\ text_content.value =
          <<"abcdefghijklmnopqrstu", ".", "abcdefghijklmnopqrst", ".",
            " ", "abcdefghij", " ", "klmnopqrstu", "!", "?">>
    /\ result.val = "abcdefghijklmnopqrstu. abcdefghij klmnopqrstu."

\* the keywords of the last call
KeywordsDone == pc = "done" /\ result.exc = ""

\* a character of a word: neither whitespace nor punctuation
WordAtom(a) == a \notin SpaceChars \cup PunctChars

\* where a token of s starts
TokenStarts(s) == {a \in 1..Len(s) : WordAtom(s[a]) /\ (a = 1 \/ ~WordAtom(s[a - 1]))}

\* the lower-cased token of s that starts at a
TokenAt(s, a) ==
    LET b == MaxOf({k \in a..Len(s) : \A m \in a..k : WordAtom(s[m])})
    IN  Concat([k \in 1..(b - a + 1) |-> lower_atom(s[a + k - 1])])

\* where the retained tokens of s start: over 3 characters, no stop word
KeptStarts(s) ==
    {a \in TokenStarts(s) : Len(TokenAt(s, a)) > 3 /\ TokenAt(s, a) \notin stop_words}

\* how often the retained token w occurs in s, and where it occurs first
FrequencyIn(s, w) == Cardinality({a \in KeptStarts(s) : TokenAt(s, a) = w})

FirstStartIn(s, w) == MinOf({a \in KeptStarts(s) : TokenAt(s, a) = w})

\* v comes before w: more frequent, or as frequent and met earlier in the text
RanksBefore(s, v, w) ==
    \/ FrequencyIn(s, v) > FrequencyIn(s, w)
    \/ FrequencyIn(s, v) = FrequencyIn(s, w) /\ FirstStartIn(s, v) < FirstStartIn(s, w)

(* C10: the keywords are returned by non-increasing frequency, keywords of *)
(* the same frequency in the order in which the text first has them; at    *)
(* most top_n are returned, and they are the first top_n of that order.    *)
C10_KeywordsByFrequencyThenFirstSeen ==
    KeywordsDone =>
        LET s == text_content.value
            r == result.val
            kept == {TokenAt(s, a) : a \in KeptStarts(s)}
            got == {r[i].keyword : i \in 1..Len(r)}
        IN  /\ Len(r) <= top_n
            /\ got \subseteq kept
            /\ \A i \in 1..Len(r) : r[i].frequency = FrequencyIn(s, r[i].keyword)
            /\ \A i, j \in 1..Len(r) : i < j => RanksBefore(s, r[i].keyword, r[j].keyword)
            /\ \A w \in kept \ got :
                   Len(r) = top_n /\ \A i \in 1..Len(r) : RanksBefore(s, r[i].keyword, w)

C10_Witness ==
    /\ KeywordsDone
    /\ top_n = 2
    /\ text_content.value = <<"keys", "\n", "data", " ", "Data", ",", "this", " ">>
    /\ result.val = << [keyword |-> "data", frequency |-> 2, relevance |-> 6667],
                       [keyword |-> "keys", frequency |-> 1, relevance |-> 3333] >>

---------------------------------------------------------------------------
(* Spec: analyze_document applied to the texts made of at most             *)
(* MaxTextPieces pieces of TextPieces and to values that are not strings,  *)
(* with every options bag over the five flags and two keys that the code   *)
(* does not read.                                                          *)

TextPieces ==
    {<<"the", " ", "data", " ", "is", " ", "data", ".">>,
     <<"abcdefghijklmnopqrstu", "!", " ">>,
     <<"https", ":", "/", "/", "b", "/", "c", "#", "https", ":", "/", "/", "b", " ">>,
     <<"see", " ", "http", ":", "/", "/", "[", " ">>,
     <<"-", " ", "data", "\n", "1", ".", " ", "b", "\n">>}

Texts == {Flatten(ps) : ps \in SeqsUpTo(TextPieces, MaxTextPieces)}

NonStrings ==
    {None,
     [type |-> "int", value |-> <<>>],
     [type |-> "list", value |-> <<>>],
     [type |-> "bytes", value |-> <<"the", " ", "data">>],
     [type |-> "UserString", value |-> <<"the", " ", "data", " ", "is", ".">>]}

FlagKeys == {"wordCount", "extractKeywords", "summarize", "extractLinks", "detectLanguage"}

OtherKeys == {"extractTables", "verbose"}

FlagValues == {"True", "False", "'no'"}

OptionBags ==
    UNION {[flags \cup others -> FlagValues] \cap
             {d \in [flags \cup others -> FlagValues] : \A k \in others : d[k] = "True"} :
           flags \in SUBSET FlagKeys, others \in SUBSET OtherKeys}

Init ==
    /\ text_content \in {Str(s) : s \in Texts} \cup NonStrings
    /\ options \in {None} \cup {Dict(d) : d \in OptionBags}
    /\ top_n = 0
    /\ max_sentences = 0
    /\ document_data = NoDocument
    /\ pc = "call"
    /\ result = NoResult
    /\ actor_input = NoInput
    /\ request = NoRequest
    /\ locals = NoLocals
    /\ trace = NoCalls
    /\ document = NoText

AnalyzeDocument ==
    /\ pc = "call"
    /\ \E order \in Orderings(url_sets(text_content)) :
          result' = analyze_document(text_content, options, order)
    /\ pc' = "done"
    /\ UNCHANGED <<text_content, options, top_n, max_sentences, document_data>>
    /\ UNCHANGED <<actor_input, request, locals, trace, document>>

Next == AnalyzeDocument

Spec == Init /\ [][Next]_vars

\* the call of analyze_document is over
Done == pc = "done"

\* the call returned a report
ReportDone == Done /\ result.exc = ""

report == result.val

\* the flag is present in the options and truthy
Enabled(key) ==
    /\ options # None
    /\ key \in DOMAIN options.value
    /\ options.value[key] \notin {"False", "0"}

\* the flag is present in the options and falsy
Disabled(key) ==
    /\ options # None
    /\ key \in DOMAIN options.value
    /\ options.value[key] \in {"False", "0"}

\* the options without the keys that are not flags
FlagsOnly ==
    IF options = None THEN None
    ELSE Dict([key \in DOMAIN options.value \cap FlagKeys |-> options.value[key]])

C5_TablesNeverRaise == Done => result.exc = ""

(* C7: for a string text, analyze_document returns a report under every    *)
(* options bag, and the two averages of a text without words are 0.  With  *)
(* extractLinks truthy, a URL whose host has a [ and no ] ends the call    *)
(* with the ValueError of urlparse.                                        *)
C7_StringsNeverRaise ==
    (Done /\ text_content.type = "str") =>
        /\ result.exc = ""
        /\ ("statistics" \in DOMAIN report /\ report.statistics.wordCount = 0) =>
              /\ report.statistics.averageWordLength = 0
              /\ report.statistics.averageSentenceLength = 0

(* C8: with summarize truthy, the summary of a string text without a       *)
(* retained sentence is the empty string.  The code closes the join of no  *)
(* sentence with a period, and the summary is '.'.                         *)
C8_NoSentenceEmptySummary ==
    (ReportDone /\ text_content.type = "str" /\ Enabled("summarize")
        /\ RetainedOf(text_content.value) = <<>>) =>
        report.summary = ""

(* C9: a call with a text that is not a str ends with an exception under   *)
(* every options bag, and returns no report.  The code does not look at    *)
(* the type: a UserString goes through every analysis but those of the re  *)
(* module, and with these off the call returns a report.                   *)
C9_NonStringsRaise ==
    (Done /\ text_content.type # "str") => result.exc # ""

---------------------------------------------------------------------------
(* Claims about _extract_keywords, under SpecKeywords.                     *)

\* the absolute value of an integer
Abs(x) == IF x < 0 THEN -x ELSE x

C12_NoTokenNoKeyword ==
    pc = "done" =>
        LET s == text_content.value
            r == result.val
        IN  /\ KeptStarts(s) = {} => result = Returned(<<>>)
            /\ result.exc = "" =>
                  \A i \in 1..Len(r) : Len(r[i].keyword) > 3 /\ r[i].keyword \notin stop_words

C12_Witness ==
    /\ pc = "done"
    /\ top_n = DefaultTopN
    /\ text_content.value = <<"this", " ", "abc", " ", "abc">>
    /\ result = Returned(<<>>)

---------------------------------------------------------------------------
(* SpecLinks: _extract_links applied to the texts made of at most          *)
(* MaxLinkPieces pieces of LinkPieces.                                     *)

LinkPieces ==
    {<<"http", ":", "/", "/", "a">>,
     <<" ">>,
     <<"/", "b">>,
     <<"https", ":", "/", "/", "a", "|">>}

LinkTexts == {Flatten(ps) : ps \in SeqsUpTo(LinkPieces, MaxLinkPieces)}

InitLinks ==
    /\ text_content \in {Str(s) : s \in LinkTexts}
    /\ options = NoOptions
    /\ top_n = 0
    /\ max_sentences = 0
    /\ document_data = NoDocument
    /\ pc = "call"
    /\ result = NoResult
    /\ actor_input = NoInput
    /\ request = NoRequest
    /\ locals = NoLocals
    /\ trace = NoCalls
    /\ document = NoText

ExtractLinks ==
    /\ pc = "call"
    /\ \E order \in Orderings(unique_urls(text_content.value)) :
          result' = extract_links(text_content.value, order)
    /\ pc' = "done"
    /\ UNCHANGED <<text_content, options, top_n, max_sentences, document_data>>
    /\ UNCHANGED <<actor_input, request, locals, trace, document>>

NextLinks == ExtractLinks

SpecLinks == InitLinks /\ [][NextLinks]_vars

\* the links of the last call
LinksDone == pc = "done" /\ result.exc = ""

\* a character that a URL can hold
UrlAtom(a) == a \notin {" ", "\n", "\t", "#", "|", Bullet}

\* http:// or https:// and one more character of a URL are at index a of s
SchemeAt(s, a) ==
    /\ a + 4 <= Len(s)
    /\ s[a] \in {"http", "https"}
    /\ <<s[a + 1], s[a + 2], s[a + 3]>> = <<":", "/", "/">>
    /\ UrlAtom(s[a + 4])

\* where a matched URL of s starts: at a scheme that no earlier URL runs over
MatchStarts(s) ==
    {a \in 1..Len(s) :
        /\ SchemeAt(s, a)
        /\ ~\E b \in 1..(a - 1) : SchemeAt(s, b) /\ \A k \in b..a : UrlAtom(s[k])}

\* the matched URL of s that starts at a: as far as the characters of a URL go
MatchAt(s, a) == SubSeq(s, a, MaxOf({k \in a..Len(s) : \A m \in a..k : UrlAtom(s[m])}))

\* where u occurs in s as a substring
Occurrences(s, u) == {a \in 1..(Len(s) - Len(u) + 1) : SubSeq(s, a, a + Len(u) - 1) = u}

\* how many of the occurrences at the ascending places ps are counted when
\* an occurrence that begins inside a counted one is not: free is the first
\* index after the last counted one
RECURSIVE Disjoint(_, _, _)
Disjoint(ps, len, free) ==
    IF ps = <<>> THEN 0
    ELSE IF Head(ps) >= free THEN 1 + Disjoint(Tail(ps), len, Head(ps) + len)
    ELSE Disjoint(Tail(ps), len, free)

\* the links are one per distinct matched URL of the text
OnePerMatchedUrl ==
    LET s == text_content.value
        r == result.val
    IN  /\ \A i, j \in 1..Len(r) : i # j => r[i].url # r[j].url
        /\ {r[i].url : i \in 1..Len(r)} = {Concat(MatchAt(s, a)) : a \in MatchStarts(s)}

---------------------------------------------------------------------------
(* SpecLanguage: _detect_language applied to the texts made of at most     *)
(* MaxLanguagePieces pieces of LanguagePieces.                             *)

LanguagePieces ==
    {<<"the", " ">>, <<"El", "\n">>, <<"de", " ">>, <<"que", "\t">>, <<"in", " ">>,
     <<"und", " ">>, <<"le", " ">>, <<"der", " ">>, <<"is", ".", " ">>, <<"data", " ">>}

LanguageTexts == {Flatten(ps) : ps \in SeqsUpTo(LanguagePieces, MaxLanguagePieces)}

InitLanguage ==
    /\ text_content \in {Str(s) : s \in LanguageTexts}
    /\ options = NoOptions
    /\ top_n = 0
    /\ max_sentences = 0
    /\ document_data = NoDocument
    /\ pc = "call"
    /\ result = NoResult
    /\ actor_input = NoInput
    /\ request = NoRequest
    /\ locals = NoLocals
    /\ trace = NoCalls
    /\ document = NoText

DetectLanguage ==
    /\ pc = "call"
    /\ result' = Returned(detect_language(text_content.value))
    /\ pc' = "done"
    /\ UNCHANGED <<text_content, options, top_n, max_sentences, document_data>>
    /\ UNCHANGED <<actor_input, request, locals, trace, document>>

NextLanguage == DetectLanguage

SpecLanguage == InitLanguage /\ [][NextLanguage]_vars

\* where a word of s starts, and the lower-cased word that starts there: a
\* word is a longest run of characters other than whitespace
WordStarts(s) ==
    {a \in 1..Len(s) : s[a] \notin SpaceChars /\ (a = 1 \/ s[a - 1] \in SpaceChars)}

LowerWordAt(s, a) ==
    LET b == MaxOf({k \in a..Len(s) : \A m \in a..k : s[m] \notin SpaceChars})
    IN  Concat([k \in 1..(b - a + 1) |-> lower_atom(s[a + k - 1])])

LowerWords(s) == {LowerWordAt(s, a) : a \in WordStarts(s)}

\* the four languages in their fixed order, and the word set of each
LanguageOrder == <<"en", "es", "fr", "de">>

LanguageWords == <<english_words, spanish_words, french_words, german_words>>

\* how many words of the k-th language the text has
Hits(s, k) == Cardinality(LowerWords(s) \cap LanguageWords[k])

(* C14: the language is 'unknown' iff the lower-cased words of the text    *)
(* meet none of the four word sets; otherwise it is the first of en, es,   *)
(* fr, de whose number of words met is the greatest of the four.  It is    *)
(* always one of en, es, fr, de, unknown.                                  *)
C14_LanguageIsFirstMaximum ==
    (pc = "done") =>
        LET s == text_content.value
        IN  /\ result.exc = ""
            /\ result.val \in {"en", "es", "fr", "de", "unknown"}
            /\ result.val = "unknown" <=> \A k \in 1..4 : Hits(s, k) = 0
            /\ result.val # "unknown" =>
                  \E k \in 1..4 :
                      /\ result.val = LanguageOrder[k]
                      /\ \A j \in 1..4 : Hits(s, j) <= Hits(s, k)
                      /\ \A j \in 1..(k - 1) : Hits(s, j) < Hits(s, k)

C14_Witness ==
    /\ pc = "done"
    /\ text_content.value = <<"de", " ", "El", "\n", "le", " ">>
    /\ result = Returned("es")

---------------------------------------------------------------------------
(* SpecStructure: _analyze_structure applied to the texts of at most       *)
(* MaxLines lines of LineKinds.                                            *)

\* a line of n words "a" with one space between them
RECURSIVE WordsLine(_)
WordsLine(n) == IF n = 0 THEN <<>> ELSE IF n = 1 THEN <<"a">> ELSE <<"a", " ">> \o WordsLine(n - 1)

LineKinds ==
    {<<>>,
     <<" ", "The", " ", "data", " ", "a", " ", "b", " ", "c", "\t">>,
     <<"LOUD", " ", "KEYS", " ", "A", " ", "1">>,
     <<"a", " ", "b", " ", "c", " ", "d", " ", "e", " ", "f">>,
     WordsLine(3), WordsLine(10), WordsLine(11), WordsLine(12),
     <<"*", " ", "a", " ", "b", " ", "c">>,
     <<" ", "12", ")", " ", "b">>,
     <<"a", ".", " ", "b">>,
     <<"A", ".", " ", "b">>,
     <<Bullet, "\t">>}

\* the lines ls with a line feed between them
RECURSIVE JoinLines(_)
JoinLines(ls) ==
    IF ls = <<>> THEN <<>>
    ELSE IF Len(ls) = 1 THEN ls[1]
    ELSE ls[1] \o <<"\n">> \o JoinLines(Tail(ls))

StructureTexts == {JoinLines(ls) : ls \in SeqsUpTo(LineKinds, MaxLines)}

InitStructure ==
    /\ text_content \in {Str(s) : s \in StructureTexts}
    /\ options = NoOptions
    /\ top_n = 0
    /\ max_sentences = 0
    /\ document_data = NoDocument
    /\ pc = "call"
    /\ result = NoResult
    /\ actor_input = NoInput
    /\ request = NoRequest
    /\ locals = NoLocals
    /\ trace = NoCalls
    /\ document = NoText

AnalyzeStructure ==
    /\ pc = "call"
    /\ result' = Returned(analyze_structure(text_content.value))
    /\ pc' = "done"
    /\ UNCHANGED <<text_content, options, top_n, max_sentences, document_data>>
    /\ UNCHANGED <<actor_input, request, locals, trace, document>>

NextStructure == AnalyzeStructure

SpecStructure == InitStructure /\ [][NextStructure]_vars

\* the structure report of the last call
structure == result.val

\* where the line feeds of s are, in ascending order
Breaks(s) == Ascending({k \in 1..Len(s) : s[k] = "\n"})

\* the number of lines of s, and its line of index i (from 0): what is
\* between two line feeds, or between one and an end of s
LineCountOf(s) == Len(Breaks(s)) + 1

LineOf(s, i) ==
    SubSeq(s, IF i = 0 THEN 1 ELSE Breaks(s)[i] + 1,
              IF i = Len(Breaks(s)) THEN Len(s) ELSE Breaks(s)[i + 1] - 1)

\* x without its leading and trailing whitespace
Trimmed(x) ==
    LET ink == {k \in 1..Len(x) : x[k] \notin SpaceChars}
    IN  IF ink = {} THEN <<>> ELSE SubSeq(x, MinOf(ink), MaxOf(ink))

\* the positions of a list of headings or items
PositionsOf(es) == {es[k].position : k \in 1..Len(es)}

\* the entries es are in increasing order of position, each with the trimmed
\* text of its line
InLineOrder(s, es) ==
    /\ \A j, k \in 1..Len(es) : j < k => es[j].position < es[k].position
    /\ \A k \in 1..Len(es) :
          /\ es[k].position \in 0..(LineCountOf(s) - 1)
          /\ es[k].text = Concat(Trimmed(LineOf(s, es[k].position)))

\* the line of index i has over 3 and at most 10 words
ShortLine(s, i) == WordsOf(LineOf(s, i)) > 3 /\ WordsOf(LineOf(s, i)) <= 10

\* the line of index i has a line after it, and that one has over 10 words
LongLineAfter(s, i) == i + 1 < LineCountOf(s) /\ WordsOf(LineOf(s, i + 1)) > 10

(* C15 as stated: the line of index i is a heading iff it has over 3 and   *)
(* at most 10 words and the line after it, if there is one, has over 10    *)
(* words.  The code asks for a line after it: a last line is no heading.   *)
C15_HeadingUnlessShortLineAfter ==
    (pc = "done") =>
        /\ InLineOrder(text_content.value, structure.headings)
        /\ PositionsOf(structure.headings) =
              {i \in 0..(LineCountOf(text_content.value) - 1) :
                  /\ ShortLine(text_content.value, i)
                  /\ \/ i + 1 = LineCountOf(text_content.value)
                     \/ LongLineAfter(text_content.value, i)}

(* C15: the line of index i (from 0) is reported as a heading, with        *)
(* position i and its trimmed text, iff it has over 3 and at most 10 words *)
(* and there is a line after it that has over 10 words; the headings are   *)
(* in increasing order of position.                                        *)
C15_HeadingIffLongLineAfter ==
    (pc = "done") =>
        /\ InLineOrder(text_content.value, structure.headings)
        /\ PositionsOf(structure.headings) =
              {i \in 0..(LineCountOf(text_content.value) - 1) :
                  ShortLine(text_content.value, i) /\ LongLineAfter(text_content.value, i)}

C15_Witness ==
    /\ pc = "done"
    /\ text_content.value =
          JoinLines(<<WordsLine(10), WordsLine(11), <<"LOUD", " ", "KEYS", " ", "A", " ", "1">>>>)
    /\ structure.headings =
          <<[text |-> "a a a a a a a a a a", position |-> 0, level |-> 3]>>

\* x has a capital letter and no small letter
UpperCase(x) ==
    /\ \E k \in 1..Len(x) : x[k] \in UpperAtoms \cup MixedAtoms
    /\ \A k \in 1..Len(x) : x[k] \in UpperAtoms \cup UncasedAtoms

(* C16: a heading has level 1 if its text is in upper case, else level 2   *)
(* if it has at most 5 words, else level 3; a heading of level 2 has 4 or  *)
(* 5 words.                                                                *)
C16_LevelByCaseThenLength ==
    (pc = "done") =>
        \A k \in 1..Len(structure.headings) :
            LET h == structure.headings[k]
                line == LineOf(text_content.value, h.position)
            IN  /\ h.level \in {1, 2, 3}
                /\ h.level = 1 <=> UpperCase(line)
                /\ h.level = 2 <=> ~UpperCase(line) /\ WordsOf(line) <= 5
                /\ h.level = 2 => WordsOf(line) \in {4, 5}

C16_Witness ==
    /\ pc = "done"
    /\ text_content.value =
          JoinLines(<<<<" ", "The", " ", "data", " ", "a", " ", "b", " ", "c", "\t">>,
                      WordsLine(12), <<>>>>)
    /\ structure.headings = <<[text |-> "The data a b c", position |-> 0, level |-> 2]>>

\* the index of the first character of x that is no whitespace
FirstInk(x) == MinOf({k \in 1..(Len(x) + 1) : k = Len(x) + 1 \/ x[k] \notin SpaceChars})

\* whitespace follows the index k of x
SpaceAfter(x, k) == k + 1 <= Len(x) /\ x[k + 1] \in SpaceChars

\* x is optional whitespace, one of - * and the bullet, then whitespace
BulletLine(x) ==
    /\ FirstInk(x) <= Len(x)
    /\ x[FirstInk(x)] \in {"-", "*", Bullet}
    /\ SpaceAfter(x, FirstInk(x))

\* x is optional whitespace, digits or one small letter, . or ), then whitespace
NumberedLine(x) ==
    \E e \in (FirstInk(x) + 1)..Len(x) :
        /\ \/ \A k \in FirstInk(x)..(e - 1) : x[k] \in DigitAtoms
           \/ e = FirstInk(x) + 1 /\ x[FirstInk(x)] \in SmallLetters
        /\ x[e] \in {".", ")"}
        /\ SpaceAfter(x, e)

(* C17: a line gives at most one list item, with its index (from 0) as     *)
(* position: of type 'bullet' iff the line is optional whitespace, one of  *)
(* - * and the bullet, then whitespace; of type 'numbered' iff it is       *)
(* optional whitespace, digits or one small letter, . or ), then           *)
(* whitespace; no item for another line.  The items are in increasing      *)
(* order of position.                                                      *)
C17_ItemsByFirstPattern ==
    (pc = "done") =>
        LET s == text_content.value
            items == structure.listItems
            typed(t) == {items[k].position : k \in {j \in 1..Len(items) : items[j].type = t}}
            lines == 0..(LineCountOf(s) - 1)
        IN  /\ InLineOrder(s, items)
            /\ \A k \in 1..Len(items) : items[k].type \in {"bullet", "numbered"}
            /\ typed("bullet") = {i \in lines : BulletLine(LineOf(s, i))}
            /\ typed("numbered") =
                  {i \in lines : ~BulletLine(LineOf(s, i)) /\ NumberedLine(LineOf(s, i))}

C17_Witness ==
    /\ pc = "done"
    /\ text_content.value =
          JoinLines(<<<<"a", ".", " ", "b">>, <<"A", ".", " ", "b">>, <<Bullet, "\t">>>>)
    /\ Len(structure.listItems) = 2
    /\ structure.listItems[1] = [text |-> "a. b", position |-> 0, type |-> "numbered"]
    /\ structure.listItems[2].position = 2
    /\ structure.listItems[2].type = "bullet"

(* C18: hasStructure is true iff the report has a heading or a list item.  *)
C18_HasStructureIffAnyFound ==
    (pc = "done") =>
        (structure.hasStructure <=> (structure.headings # <<>> \/ structure.listItems # <<>>))

C18_Witness ==
    /\ pc = "done"
    /\ structure.headings = <<>>
    /\ Len(structure.listItems) = 1
    /\ structure.hasStructure

---------------------------------------------------------------------------
(* Claims about analyze_document, under Spec.                              *)

\* an options bag with wordCount and every optional analysis off
AllOff == Dict([key \in FlagKeys |-> "False"])

(* C19: every returned report has the structure of the text, which is the  *)
(* structure of the report of the same text with statistics and every      *)
(* optional analysis off, whatever the options bag.                        *)
C19_StructureWhateverTheOptions ==
    ReportDone =>
        /\ "structure" \in DOMAIN report
        /\ analyze_document(text_content, AllOff, <<>>).exc = ""
        /\ report.structure = analyze_document(text_content, AllOff, <<>>).val.structure

C19_Witness ==
    /\ ReportDone
    /\ text_content = Str(<<"-", " ", "data", "\n", "1", ".", " ", "b", "\n">>)
    /\ options = Dict([extractKeywords |-> "True", summarize |-> "'no'", verbose |-> "True"])
    /\ DOMAIN report = {"statistics", "keywords", "summary", "structure"}
    /\ report.structure.listItems =
          <<[text |-> "- data", position |-> 0, type |-> "bullet"],
            [text |-> "1. b", position |-> 1, type |-> "numbered"]>>

---------------------------------------------------------------------------
(* Claims about extract_tables, under SpecTables.                          *)

\* the value of the key k of the mapping d, or no element if d has no such key
ListAt(d, k) == IF k \in DOMAIN d THEN d[k] ELSE <<>>

\* the body elements of the document tree, and those that are tables
BodyElements ==
    IF "body" \in DOMAIN document_data THEN ListAt(document_data.body, "content") ELSE <<>>

TableElements == SelectSeq(BodyElements, LAMBDA e : "table" \in DOMAIN e)

\* the text runs of a paragraph, and of a cell, in order
RunsOfParagraph(p) ==
    LET es == SelectSeq(ListAt(p, "elements"), LAMBDA e : "textRun" \in DOMAIN e)
    IN  [k \in 1..Len(es) |-> es[k].textRun.content]

RunsOfCell(cell) ==
    LET ps == SelectSeq(ListAt(cell, "content"), LAMBDA c : "paragraph" \in DOMAIN c)
    IN  Flatten([k \in 1..Len(ps) |-> RunsOfParagraph(ps[k].paragraph)])

\* the text of a cell: its runs one after the other, trimmed
TextOfCell(cell) == Concat(Trimmed(Flatten(RunsOfCell(cell))))

(* C20: extract_tables returns one table per body element that is a table, *)
(* in the order of the document; the rows of a table are the number of its *)
(* rows, its columns the number of cells of its first row (0 without       *)
(* rows), and the text of a cell is its text runs one after the other      *)
(* without separator, trimmed.                                             *)
C20_TablesAsInDocument ==
    (Done /\ result.exc = "") =>
        /\ Len(result.val) = Len(TableElements)
        /\ \A t \in 1..Len(TableElements) :
              LET rows == ListAt(TableElements[t].table, "tableRows")
                  table == result.val[t]
              IN  /\ table.rows = Len(rows)
                  /\ table.columns =
                        (IF rows = <<>> THEN 0 ELSE Len(ListAt(rows[1], "tableCells")))
                  /\ Len(table.data) = Len(rows)
                  /\ \A r \in 1..Len(rows) :
                        /\ Len(table.data[r]) = Len(ListAt(rows[r], "tableCells"))
                        /\ \A c \in 1..Len(table.data[r]) :
                              table.data[r][c] = TextOfCell(rows[r].tableCells[c])

C20_Witness ==
    /\ Done
    /\ document_data =
          [body |-> [content |-> <<
              [table |-> [tableRows |-> <<
                  <<>>,
                  [tableCells |-> <<
                      [content |-> <<Paragraph(<<TextRun(<<" ", "a">>),
                                                 TextRun(<<"b", "\n">>)>>)>>]>>]>>]]>>]]
    /\ result = Returned(<<[rows |-> 2, columns |-> 0, data |-> <<<<>>, <<"ab">>>>]>>)

---------------------------------------------------------------------------
(* SpecTwoCalls: two calls of analyze_document on one DocumentAnalyzer,    *)
(* with the same text and the same options, each going through the blocks  *)
(* of the function one at a time, in any interleaving.  The instance has   *)
(* no attribute (__init__ is "pass"): the only state of a call is its      *)
(* local variables, options and results.                                   *)

Calls == {1, 2}

CallTexts ==
    {Str(piece) : piece \in {p \in TextPieces : p[1] \in {"the", "https", "-"}}} \cup
    {None, [type |-> "bytes", value |-> <<"the", " ", "data">>]}

CallOptions ==
    {None} \cup
    {Dict(d) : d \in [FlagKeys -> {"True"}] \cup [{"wordCount"} -> {"False"}]}

InitTwoCalls ==
    /\ text_content \in CallTexts
    /\ options \in CallOptions
    /\ top_n = 0
    /\ max_sentences = 0
    /\ document_data = NoDocument
    /\ pc = [c \in Calls |-> "call"]
    /\ result = [c \in Calls |-> NoResult]
    /\ actor_input = NoInput
    /\ request = NoRequest
    /\ locals = [c \in Calls |-> NoLocals]
    /\ trace = NoCalls
    /\ document = NoText

\* results[key] = value
SetItem(dict, key, value) ==
    [k \in DOMAIN dict \cup {key} |-> IF k = key THEN value ELSE dict[k]]

\* "if options is None: options = {}" and "results = {}": the parameter is
\* rebound, the caller's bag is left as it is
EnterCall(c) ==
    /\ pc[c] = "call"
    /\ locals' = [locals EXCEPT ![c] =
                     [options |-> IF options = None THEN <<>> ELSE options.value,
                      results |-> <<>>,
                      block |-> 1]]
    /\ pc' = [pc EXCEPT ![c] = "blocks"]
    /\ UNCHANGED <<text_content, options, top_n, max_sentences, document_data>>
    /\ UNCHANGED <<result, actor_input, request, trace, document>>

\* the next block of the call: its condition, the analysis and the store
\* into results; the last block is followed by "return results"
RunBlock(c) ==
    /\ pc[c] = "blocks"
    /\ \E order \in Orderings(url_sets(text_content)) :
          LET all == analyses(text_content, locals[c].options, order)
              block == all[locals[c].block]
              last == locals[c].block = Len(all)
              stored == IF is_run(block) /\ block.res.exc = ""
                        THEN SetItem(locals[c].results, block.key, block.res.val)
                        ELSE locals[c].results
          IN  /\ trace' = IF is_run(block)
                          THEN Append(trace, [call |-> c, key |-> block.key])
                          ELSE trace
              /\ IF is_run(block) /\ block.res.exc # ""
                 THEN /\ result' = [result EXCEPT ![c] = Raised(block.res.exc)]
                      /\ pc' = [pc EXCEPT ![c] = "done"]
                      /\ UNCHANGED locals
                 ELSE /\ locals' = [locals EXCEPT ![c].results = stored,
                                                  ![c].block = @ + 1]
                      /\ result' = IF last THEN [result EXCEPT ![c] = Returned(stored)]
                                   ELSE result
                      /\ pc' = IF last THEN [pc EXCEPT ![c] = "done"] ELSE pc
    /\ UNCHANGED <<text_content, options, top_n, max_sentences, document_data>>
    /\ UNCHANGED <<actor_input, request, document>>

NextTwoCalls == \E c \in Calls : EnterCall(c) \/ RunBlock(c)

SpecTwoCalls == InitTwoCalls /\ [][NextTwoCalls]_vars

BothDone == \A c \in Calls : pc[c] = "done"

BothReturned == BothDone /\ \A c \in Calls : result[c].exc = ""

\* the two reports agree on the key: it is in both with one value, or in none
SameAt(key) ==
    /\ (key \in DOMAIN result[1].val) = (key \in DOMAIN result[2].val)
    /\ key \in DOMAIN result[1].val => result[1].val[key] = result[2].val[key]

---------------------------------------------------------------------------
(* The counts of the statistics, under SpecStats.                          *)

\* C22: in every statistics record, characterCount is at least
\* characterCountNoSpaces, which is at least 0, and wordCount, lineCount,
\* paragraphCount and sentenceCount are at least 0.
C22_CountsAreOrdered ==
    StatsDone =>
        /\ stats.characterCount >= stats.characterCountNoSpaces
        /\ stats.characterCountNoSpaces >= 0
        /\ stats.wordCount >= 0
        /\ stats.lineCount >= 0
        /\ stats.paragraphCount >= 0
        /\ stats.sentenceCount >= 0

\* a text with a space and a line break between its letters
C22_Witness ==
    /\ StatsDone
    /\ text_content.value = <<"a", " ", "\n", "a">>
    /\ stats.characterCount = 4
    /\ stats.characterCountNoSpaces = 2

---------------------------------------------------------------------------
(* SpecLongSummary: _generate_summary applied to texts of more than        *)
(* MaxCandidates retained sentences.  Sentence i is the word LongWord(i),  *)
(* or that word and two more when it is the heavy one; one sentence after  *)
(* the first MaxCandidates is a copy of an earlier one.                    *)

\* how many sentences a long text has beyond MaxCandidates
MaxExtraSentences == 2

\* a word of more than MinSentenceLength characters, one per number
LongWord(i) == "abcdefghijklmnopqrst" \o ToString(i)

LongSentence(i, heavy) ==
    IF heavy THEN <<LongWord(i), " ", "b", " ", "c", ".">>
    ELSE <<LongWord(i), ".", " ">>

\* n sentences, the one at position h heavy, the one at position d a copy
\* of the one at position c
LongText(n, h, d, c) ==
    Flatten([i \in 1..n |-> IF i = d THEN LongSentence(c, c = h)
                              ELSE LongSentence(i, i = h)])

LongTexts ==
    {LongText(MaxCandidates + e, h, MaxCandidates + d, c) :
        e \in 1..MaxExtraSentences,
        h \in {2, MaxCandidates, MaxCandidates + 1},
        d \in 1..MaxExtraSentences,
        c \in {1, 2, MaxCandidates}}

LongSummaryArgs == {1, 2, DefaultMaxSentences, MaxCandidates + 1}

InitLongSummary ==
    /\ text_content \in {Str(s) : s \in LongTexts}
    /\ options = NoOptions
    /\ top_n = 0
    /\ max_sentences \in LongSummaryArgs
    /\ document_data = NoDocument
    /\ pc = "call"
    /\ result = NoResult
    /\ actor_input = NoInput
    /\ request = NoRequest
    /\ locals = NoLocals
    /\ trace = NoCalls
    /\ document = NoText

SpecLongSummary == InitLongSummary /\ [][NextSummary]_vars


\* the sentences of the summary: all the retained ones when they are at most
\* max_sentences, those of the scan otherwise
EmittedSentences ==
    LET ss == retained_sentences(text_content.value)
    IN  IF Len(ss) <= max_sentences THEN ss ELSE summary_sentences(ss, max_sentences)

\* e can be read in f from left to right, each element of f used at most once
RECURSIVE IsSubsequence(_, _)
IsSubsequence(e, f) ==
    IF e = <<>> THEN TRUE
    ELSE IF f = <<>> THEN FALSE
    ELSE IF Head(e) = Head(f) THEN IsSubsequence(Tail(e), Tail(f))
    ELSE IsSubsequence(e, Tail(f))

FirstOf(ss, n) == SubSeq(ss, 1, IF Len(ss) < n THEN Len(ss) ELSE n)

\* C23 as stated: the summary has at most max_sentences sentences and, when
\* more than max_sentences sentences are retained, the sentences it emits
\* are at positions among the first 50 retained sentences, whatever
\* max_sentences is.
C23_EmittedAmongFirstFifty ==
    LET ss == RetainedOf(text_content.value)
    IN  SummaryDone =>
            /\ result.val = JoinedWithPeriods(EmittedSentences)
            /\ Len(EmittedSentences) <= max_sentences
            /\ Len(ss) > max_sentences =>
                  IsSubsequence(EmittedSentences, FirstOf(ss, 50))

\* What holds of the code: the statement of C23 for max_sentences up to 50,
\* where each selected position is itself found by the scan before index 50.
EmittedAmongFirstFiftyWhenAtMostFiftyAsked ==
    LET ss == RetainedOf(text_content.value)
    IN  SummaryDone =>
            /\ result.val = JoinedWithPeriods(EmittedSentences)
            /\ Len(EmittedSentences) <= max_sentences
            /\ (Len(ss) > max_sentences /\ max_sentences <= 50) =>
                  IsSubsequence(EmittedSentences, FirstOf(ss, 50))

\* 52 sentences, the second one heavy and selected, the 51st a copy of it
LaterCopyOfSelected ==
    /\ SummaryDone
    /\ max_sentences = 2
    /\ text_content.value = LongText(52, 2, 51, 2)
    /\ Len(RetainedOf(text_content.value)) = 52
    /\ RetainedOf(text_content.value)[51] = RetainedOf(text_content.value)[2]
    /\ result.val = "abcdefghijklmnopqrst1. abcdefghijklmnopqrst2 b c."

---------------------------------------------------------------------------
(* batch_operations_operation (main.py).  The input of the Actor is a      *)
(* dict of Python values; an op is any value of the batchOperations list.  *)
(* The client is the Google Docs service seen from the function: a call    *)
(* of get_document_text returns the text of the document or raises.        *)

\* the most ops of a batch
MaxBatchOps == 2

Num(n) == [type |-> "int", value |-> n]

List(items) == [type |-> "list", value |-> items]

Word(w) == Str(<<w>>)

IsDict(v) == v.type = "dict"

\* the parameters of GoogleDocsClient.write_to_document, after self
WriteParameters == {"document_id", "content", "position", "formatting"}

\* those without a default
RequiredWriteParameters == {"document_id", "content"}

\* write_to_document(**kwargs) is a call the function accepts
binds_write(kwargs) ==
    /\ DOMAIN kwargs \subseteq WriteParameters
    /\ RequiredWriteParameters \subseteq DOMAIN kwargs

\* actor_input.get('rateLimitDelay', 100), in milliseconds
DefaultRateLimitDelay == 100

\* the entry of results for an op that went through
success_entry(i, op, value) ==
    [index |-> i, operation |-> get(op.value, "operation", None),
     documentId |-> get(op.value, "documentId", None),
     success |-> TRUE, result |-> value]

\* the entry of results written by the except clause
failure_entry(i, op, exc) ==
    [index |-> i, operation |-> get(op.value, "operation", None),
     documentId |-> get(op.value, "documentId", None),
     success |-> FALSE, error |-> exc]

\* what the branch of an unknown op type does with the op
unknown_type(i, op) ==
    success_entry(i, op, [error |-> "Unknown operation type"])

\* the entry of an op of type 'analyze' whose text was read: the analysis, or
\* the exception it raised
analysis_entry(i, op, analysis) ==
    IF analysis.exc # ""
    THEN failure_entry(i, op, analysis.exc)
    ELSE success_entry(i, op, analysis.val)

\* One pass of the loop for the op at index i (from 0): the exception that
\* leaves the function (raises), the entry appended to results, the calls
\* made, in order, and the op as the pass leaves it.  served tells whether
\* the client answers the call made by the pass; order is that of
\* list(set(urls)) in the analysis.
batch_pass(input, i, text, served, order) ==
    LET op == input["batchOperations"].value[i + 1]
    IN  IF ~IsDict(op)
        THEN \* op.get raises in the try, and again in the except clause
             [raises |-> "AttributeError", calls |-> <<>>, op |-> op, entry |-> <<>>]
        ELSE
        LET op_type == get(op.value, "operation", None)
            given == get(op.value, "params", Dict(<<>>))
        IN  IF ~IsDict(given)
            THEN \* op_params['documentId'] = ... on a value that is no dict
                 [raises |-> "", calls |-> <<>>, op |-> op,
                  entry |-> failure_entry(i, op, "TypeError")]
            ELSE
            LET op_params == SetItem(given.value, "documentId",
                                     get(op.value, "documentId", None))
                op_after == IF "params" \in DOMAIN op.value
                            THEN Dict([op.value EXCEPT !["params"] = Dict(op_params)])
                            ELSE op
                delay == get(input, "rateLimitDelay", Num(DefaultRateLimitDelay))
                slept == IF i > 0 THEN <<[call |-> "sleep", op |-> i, arg |-> delay]>>
                         ELSE <<>>
                read == <<[call |-> "get_document_text", op |-> i,
                           arg |-> get(op.value, "documentId", None)]>>
                out(calls, entry) ==
                    [raises |-> "", calls |-> calls, op |-> op_after, entry |-> entry]
            IN  IF i > 0 /\ delay.type # "int"
                THEN out(<<>>, failure_entry(i, op_after, "TypeError"))
                ELSE IF op_type = Word("read")
                THEN IF "documentId" \notin DOMAIN op.value
                     THEN out(slept, failure_entry(i, op_after, "KeyError"))
                     ELSE IF ~served
                     THEN out(slept \o read, failure_entry(i, op_after, "Exception"))
                     ELSE out(slept \o read, success_entry(i, op_after, text))
                ELSE IF op_type = Word("write")
                THEN IF ~binds_write(op_params)
                     THEN out(slept, failure_entry(i, op_after, "TypeError"))
                     ELSE LET write == <<[call |-> "write_to_document", op |-> i,
                                          arg |-> op_params]>>
                          IN  IF ~served
                              THEN out(slept \o write,
                                       failure_entry(i, op_after, "Exception"))
                              ELSE out(slept \o write,
                                       success_entry(i, op_after,
                                           [success |-> TRUE,
                                            documentId |-> op_params["document_id"],
                                            insertedText |-> op_params["content"]]))
                ELSE IF op_type = Word("analyze")
                THEN IF "documentId" \notin DOMAIN op.value
                     THEN out(slept, failure_entry(i, op_after, "KeyError"))
                     ELSE IF ~served
                     THEN out(slept \o read, failure_entry(i, op_after, "Exception"))
                     ELSE out(slept \o read,
                              analysis_entry(i, op_after,
                                  analyze_document(text,
                                      get(op_params, "options", Dict(<<>>)), order)))
                ELSE out(slept, unknown_type(i, op_after))

\* sum(1 for r in results if r.get('success'))
success_count(results) ==
    Cardinality({k \in 1..Len(results) : results[k].success})

\* the dict returned after the loop
batch_report(batch_ops, results) ==
    [operation |-> "batch_operations",
     totalOperations |-> Len(batch_ops),
     successfulOperations |-> success_count(results),
     failedOperations |-> Len(batch_ops) - success_count(results),
     results |-> results]

---------------------------------------------------------------------------
(* SpecBatch: batch_operations_operation on every batch of at most         *)
(* MaxBatchOps ops of BatchOps, with and without a rateLimitDelay.         *)

ServedText == Str(<<"the", " ", "data", " ", "is", " ", "data", ".">>)

BatchOps ==
    {Dict([operation |-> Word("read"), documentId |-> Word("d1")]),
     Dict([operation |-> Word("read")]),
     Dict([operation |-> Word("write"), documentId |-> Word("d1"),
           params |-> Dict([content |-> Word("hi")])]),
     Dict([operation |-> Word("analyze"), documentId |-> Word("d1"),
           params |-> Dict([options |-> Dict([extractKeywords |-> "True"])])]),
     Dict([operation |-> Word("delete"), documentId |-> Word("d1")]),
     Dict([operation |-> Word("read"), documentId |-> Word("d1"), params |-> None]),
     None}

BatchInputs ==
    {<<>>} \cup
    {[batchOperations |-> List(ops)] : ops \in SeqsUpTo(BatchOps, MaxBatchOps)} \cup
    {[batchOperations |-> List(ops), rateLimitDelay |-> Num(250)] :
        ops \in SeqsUpTo(BatchOps, MaxBatchOps)}

InitBatch ==
    /\ text_content = Str(<<>>)
    /\ options = NoOptions
    /\ top_n = 0
    /\ max_sentences = 0
    /\ document_data = NoDocument
    /\ pc = "call"
    /\ result = NoResult
    /\ actor_input \in BatchInputs
    /\ request = NoRequest
    /\ locals = NoLocals
    /\ trace = NoCalls
    /\ document = ServedText

batch_ops == get(actor_input, "batchOperations", List(<<>>)).value

\* lines 428-435: the batch is read and refused when empty
BatchOperationsCall ==
    /\ pc = "call"
    /\ IF batch_ops = <<>>
       THEN /\ result' = Raised("ValueError")
            /\ pc' = "done"
            /\ UNCHANGED locals
       ELSE /\ locals' = [i |-> 0, results |-> <<>>]
            /\ pc' = "loop"
            /\ UNCHANGED result
    /\ UNCHANGED <<text_content, options, top_n, max_sentences, document_data>>
    /\ UNCHANGED <<actor_input, request, trace, document>>

\* lines 436-477: one pass of the loop, with its try and its except clause
BatchOperationsPass ==
    /\ pc = "loop"
    /\ locals.i < Len(batch_ops)
    /\ \E served \in BOOLEAN, order \in Orderings(url_sets(document)) :
          \E pass \in {batch_pass(actor_input, locals.i, document, served, order)} :
              /\ trace' = trace \o pass.calls
              /\ actor_input' =
                    [actor_input EXCEPT !["batchOperations"] =
                        List([batch_ops EXCEPT ![locals.i + 1] = pass.op])]
              /\ IF pass.raises # ""
                 THEN /\ result' = Raised(pass.raises)
                      /\ pc' = "done"
                      /\ UNCHANGED locals
                 ELSE /\ locals' = [i |-> locals.i + 1,
                                    results |-> Append(locals.results, pass.entry)]
                      /\ UNCHANGED <<pc, result>>
    /\ UNCHANGED <<text_content, options, top_n, max_sentences, document_data>>
    /\ UNCHANGED <<request, document>>

\* lines 479-488: the counts and the return
BatchOperationsReturn ==
    /\ pc = "loop"
    /\ locals.i = Len(batch_ops)
    /\ result' = Returned(batch_report(batch_ops, locals.results))
    /\ pc' = "done"
    /\ UNCHANGED <<text_content, options, top_n, max_sentences, document_data>>
    /\ UNCHANGED <<actor_input, request, locals, trace, document>>

NextBatch == BatchOperationsCall \/ BatchOperationsPass \/ BatchOperationsReturn

SpecBatch == InitBatch /\ [][NextBatch]_vars


---------------------------------------------------------------------------
(* The claims about batch_operations, under SpecBatch.                     *)

BatchDone == pc = "done"

BatchReturned == BatchDone /\ result.exc = ""

KnownTypes == {Word("read"), Word("write"), Word("analyze")}

\* the entries of the returned results whose op type is not a known one
UnknownEntries ==
    {k \in 1..Len(result.val.results) :
        result.val.results[k].operation \notin KnownTypes}

\* C24: in the report of a batch, the entry of an op whose type is none of
\* 'read', 'write', 'analyze' has success false, and these ops are counted
\* in failedOperations and not in successfulOperations.
C24_UnknownTypeIsFailure ==
    BatchReturned =>
        /\ \A k \in UnknownEntries : ~result.val.results[k].success
        /\ result.val.failedOperations >= Cardinality(UnknownEntries)
        /\ result.val.successfulOperations <=
              Len(result.val.results) - Cardinality(UnknownEntries)

\* the ops of type 'write' that name a document and carry a content
WriteOps ==
    {k \in 1..Len(batch_ops) :
        /\ IsDict(batch_ops[k])
        /\ get(batch_ops[k].value, "operation", None) = Word("write")
        /\ "documentId" \in DOMAIN batch_ops[k].value
        /\ IsDict(get(batch_ops[k].value, "params", None))
        /\ "content" \in DOMAIN batch_ops[k].value["params"].value}

\* C25: for every op of type 'write' of a batch that returned, the client's
\* write_to_document was called for the document of the op with the content
\* of its params, and the entry of the op is a success that carries the
\* result of the write unless the client raised.
C25_WriteReachesClient ==
    BatchReturned =>
        \A k \in WriteOps :
            LET op == batch_ops[k].value
                entry == result.val.results[k]
            IN  /\ \E t \in 1..Len(trace) :
                      /\ trace[t].call = "write_to_document"
                      /\ trace[t].op = k - 1
                      /\ trace[t].arg["document_id"] = op["documentId"]
                      /\ trace[t].arg["content"] = op["params"].value["content"]
                /\ \/ entry.success /\ entry.result.documentId = op["documentId"]
                   \/ ~entry.success /\ entry.error = "Exception"

\* the positions of the trace with a call made for the op at index i
CallsFor(i) == {t \in 1..Len(trace) : trace[t].op = i}

\* every op was gone through in order, one entry each, with the delay
\* before each op but the first
EveryOpProcessed ==
    /\ BatchDone /\ batch_ops # <<>> => result.exc = ""
    /\ pc = "loop" =>
          /\ Len(locals.results) = locals.i
          /\ \A k \in 1..Len(locals.results) : locals.results[k].index = k - 1
    /\ BatchReturned =>
          /\ Len(result.val.results) = Len(batch_ops)
          /\ \A k \in 1..Len(batch_ops) : result.val.results[k].index = k - 1
          /\ result.val.totalOperations = Len(batch_ops)
          /\ result.val.successfulOperations + result.val.failedOperations =
                result.val.totalOperations
          /\ \A s, t \in 1..Len(trace) : s < t => trace[s].op <= trace[t].op
          /\ CallsFor(0) # {} => \A t \in CallsFor(0) : trace[t].call # "sleep"
          /\ \A k \in 2..Len(batch_ops) :
                /\ CallsFor(k - 1) # {}
                /\ trace[MinOf(CallsFor(k - 1))].call = "sleep"
                /\ \A t \in CallsFor(k - 1) :
                      t # MinOf(CallsFor(k - 1)) => trace[t].call # "sleep"

\* C26: a non-empty batch is gone through to its end whatever happens to an
\* op: the function returns, results has one entry per op with
\* results[i].index = i, successfulOperations + failedOperations =
\* totalOperations = the number of ops, the calls are made in the order of
\* the ops, and the delay is awaited once before every op but the first.
C26_EveryOpProcessed == EveryOpProcessed

\* every op is a dict whose params, when given, is a dict
WellFormedOps ==
    \A k \in 1..Len(batch_ops) :
        /\ IsDict(batch_ops[k])
        /\ IsDict(get(batch_ops[k].value, "params", Dict(<<>>)))

\* What holds of the code: the statement of C26 for the batches of
\* well-formed ops.
EveryWellFormedOpProcessed == WellFormedOps => EveryOpProcessed

\* a batch of two well-formed ops whose first one failed
SecondOpAfterFailure ==
    /\ BatchReturned
    /\ WellFormedOps
    /\ Len(batch_ops) = 2
    /\ ~result.val.results[1].success
    /\ result.val.results[2].success
    /\ Len(trace) = 2
    /\ trace[1].call = "sleep"

---------------------------------------------------------------------------
(* MCPServer.handle_request (mcp_server.py).  A tool reads its parameters, *)
(* calls the client and builds its result from what the client returned;   *)
(* a call of the client returns or raises.                                 *)

\* list(self.tools.keys()): the registry of __init__, in its order
tools ==
    <<"read_document", "write_document", "create_document", "search_documents",
      "analyze_content", "list_documents", "get_metadata", "share_document">>

\* tool_name is the name of a tool, whether it is registered or not
is_any_name(tool_name) == TRUE

\* tool_name in self.tools
is_registered(tool_name) == \E k \in 1..Len(tools) : tools[k] = tool_name

\* the parameters a tool reads with params[...] before it calls the client
required_parameters(tool_name) ==
    CASE tool_name = "read_document" -> {"document_id"}
      [] tool_name = "write_document" -> {"document_id", "content"}
      [] tool_name = "create_document" -> {"title"}
      [] tool_name = "search_documents" -> {"document_id", "query"}
      [] tool_name = "analyze_content" -> {"document_id"}
      [] tool_name = "list_documents" -> {}
      [] tool_name = "get_metadata" -> {"document_id"}
      [] tool_name = "share_document" -> {"document_id", "emails"}

\* the methods of the client a tool calls, in order, when each call returns
client_calls(tool_name, params) ==
    CASE tool_name = "read_document" ->
            IF get(params, "format", Word("plain_text")) = Word("plain_text")
            THEN <<"get_document_text">>
            ELSE IF params["format"] = Word("structured") THEN <<"read_document">>
            ELSE <<"read_document", "get_document_text">>
      [] tool_name = "write_document" -> <<"write_to_document">>
      [] tool_name = "create_document" ->
            IF "initial_content" \in DOMAIN params /\ params["initial_content"] # Word("")
            THEN <<"create_document", "write_to_document">>
            ELSE <<"create_document">>
      [] tool_name = "search_documents" -> <<"search_in_document">>
      [] tool_name = "analyze_content" ->
            IF "options" \in DOMAIN params
               /\ Truthy(get(params["options"].value, "extractTables", "False"))
            THEN <<"get_document_text", "read_document">>
            ELSE <<"get_document_text">>
      [] tool_name = "list_documents" -> <<"list_documents">>
      [] tool_name = "get_metadata" -> <<"get_document_metadata">>
      [] tool_name = "share_document" -> <<"share_document">>

\* what a tool did: the calls it made to the client, each with whether it
\* returned (ok), and the exception it raised, if any.  answers[k] tells
\* whether the k-th call of the client returns.
tool_run(tool_name, params, answers) ==
    IF ~(required_parameters(tool_name) \subseteq DOMAIN params)
    THEN [calls |-> <<>>, exc |-> "KeyError"]
    ELSE LET wanted == client_calls(tool_name, params)
             failed == {k \in 1..Len(wanted) : ~answers[k]}
             made == IF failed = {} THEN Len(wanted) ELSE MinOf(failed)
         IN  [calls |-> [k \in 1..made |->
                            [callee |-> "client", call |-> wanted[k], ok |-> answers[k]]],
              exc |-> IF failed = {} THEN "" ELSE "Exception"]

\* handle_request(tool_name, parameters): the dict it returns and the calls
\* made on the way, the one of the tool first
handle_request(tool_name, parameters, answers) ==
    IF ~is_registered(tool_name)
    THEN [calls |-> <<>>,
          returns |-> [success |-> FALSE, error |-> "Unknown tool",
                       available_tools |-> tools]]
    ELSE IF \A k \in 1..Len(tools) : tools[k] # tool_name
    THEN \* self.tools[tool_name] raises in the try
         [calls |-> <<>>,
          returns |-> [success |-> FALSE, tool |-> tool_name, error |-> "KeyError"]]
    ELSE LET run == tool_run(tool_name, parameters.value, answers)
             invoked == <<[callee |-> "tool", call |-> tool_name, ok |-> run.exc = ""]>>
         IN  IF run.exc = ""
             THEN [calls |-> invoked \o run.calls,
                   returns |-> [success |-> TRUE, tool |-> tool_name,
                                result |-> [of |-> tool_name, from |-> run.calls]]]
             ELSE [calls |-> invoked \o run.calls,
                   returns |-> [success |-> FALSE, tool |-> tool_name,
                                error |-> run.exc]]

---------------------------------------------------------------------------
(* SpecRequest: handle_request for the registered tools and two other      *)
(* names, with parameters that have or miss what the tools read.           *)

RequestNames == {tools[k] : k \in 1..Len(tools)} \cup {"delete_document", ""}

RequestParameters ==
    {Dict(<<>>),
     Dict([document_id |-> Word("d1")]),
     Dict([document_id |-> Word("d1"), format |-> Word("structured")]),
     Dict([document_id |-> Word("d1"), format |-> Word("full")]),
     Dict([document_id |-> Word("d1"), content |-> Word("hi")]),
     Dict([title |-> Word("t")]),
     Dict([title |-> Word("t"), initial_content |-> Word("hi")]),
     Dict([document_id |-> Word("d1"), query |-> Word("a")]),
     Dict([document_id |-> Word("d1"), options |-> Dict([extractTables |-> "True"])]),
     Dict([document_id |-> Word("d1"), emails |-> Word("a@b")])}

\* the most calls of the client in one tool
MaxClientCalls == 2

InitRequest ==
    /\ text_content = Str(<<>>)
    /\ options = NoOptions
    /\ top_n = 0
    /\ max_sentences = 0
    /\ document_data = NoDocument
    /\ pc = "call"
    /\ result = NoResult
    /\ actor_input = NoInput
    /\ request \in {[tool_name |-> n, parameters |-> p] :
                       n \in RequestNames, p \in RequestParameters}
    /\ locals = NoLocals
    /\ trace = NoCalls
    /\ document = NoText

HandleRequest ==
    /\ pc = "call"
    /\ \E answers \in [1..MaxClientCalls -> BOOLEAN] :
          LET handled == handle_request(request.tool_name, request.parameters, answers)
          IN  /\ trace' = trace \o handled.calls
              /\ result' = Returned(handled.returns)
    /\ pc' = "done"
    /\ UNCHANGED <<text_content, options, top_n, max_sentences, document_data>>
    /\ UNCHANGED <<actor_input, request, locals, document>>

NextRequest == HandleRequest

SpecRequest == InitRequest /\ [][NextRequest]_vars

RequestDone == pc = "done"

\* the positions of the trace where a tool was invoked
ToolInvocations == {t \in 1..Len(trace) : trace[t].callee = "tool"}

\* C27: handle_request returns for every tool name and parameters.  For a
\* name that is not registered it returns success false with the list of
\* the tools and nothing was invoked.  For a registered tool the tool was
\* invoked once; the return is success true with the tool name and a result
\* when the tool read its parameters and every call of the client returned,
\* and success false with the tool name and the error otherwise (KeyError
\* when a parameter the tool reads is missing).
C27_RequestsAreAnswered ==
    RequestDone =>
        /\ result.exc = ""
        /\ IF request.tool_name \notin {tools[k] : k \in 1..Len(tools)}
           THEN /\ result.val = [success |-> FALSE, error |-> "Unknown tool",
                                 available_tools |-> tools]
                /\ trace = <<>>
           ELSE /\ Cardinality(ToolInvocations) = 1
                /\ trace[1].call = request.tool_name
                /\ result.val.tool = request.tool_name
                /\ result.val.success =
                      /\ required_parameters(request.tool_name)
                            \subseteq DOMAIN request.parameters.value
                      /\ \A t \in 1..Len(trace) : trace[t].ok
                /\ result.val.success => "result" \in DOMAIN result.val
                /\ ~result.val.success =>
                      /\ "error" \in DOMAIN result.val
                      /\ (result.val.error = "KeyError") =
                            ~(required_parameters(request.tool_name)
                                 \subseteq DOMAIN request.parameters.value)

\* the second call of the client raised in a tool that was asked for a
\* document in full
C27_Witness ==
    /\ RequestDone
    /\ request.tool_name = "read_document"
    /\ Len(trace) = 3
    /\ trace[2].ok /\ ~trace[3].ok
    /\ result.val = [success |-> FALSE, tool |-> "read_document", error |-> "Exception"]

---------------------------------------------------------------------------
(* GoogleDocsClient.search_in_document (google_docs_client.py).  A text is *)
(* a sequence of characters, one atom each; indices are those of Python,   *)
(* from 0.                                                                 *)

\* the longest document text and the longest query of the model
MaxSearchLen == 3

MaxQueryLen == 2

DottedI == "\\u0130"

CombiningDot == "\\u0307"

\* str.lower() of one character: the capital I with a dot becomes an i and
\* a combining dot, two characters
lower_char(c) ==
    IF c = "A" THEN <<"a">>
    ELSE IF c = DottedI THEN <<"i", CombiningDot>>
    ELSE <<c>>

\* str.lower()
lower_str(s) == Flatten([k \in 1..Len(s) |-> lower_char(s[k])])

\* sub occurs in s at index p
occurs_at(s, sub, p) ==
    /\ p >= 0
    /\ p + Len(sub) <= Len(s)
    /\ SubSeq(s, p + 1, p + Len(sub)) = sub

\* s.find(sub, start): the least index from start on where sub occurs, or -1
find(s, sub, start) ==
    LET hits == {p \in start..Len(s) : occurs_at(s, sub, p)}
    IN  IF hits = {} THEN -1 ELSE MinOf(hits)

\* s[a:b] for 0 <= a
slice(s, a, b) == SubSeq(s, a + 1, IF b < Len(s) THEN b ELSE Len(s))

\* the width of the context on each side of a match
ContextWidth == 50

\* the dict appended for a match at index
match_at(text, query, index) ==
    [position |-> index,
     text |-> slice(text, index, index + Len(query)),
     context |-> slice(text, IF index - ContextWidth > 0 THEN index - ContextWidth ELSE 0,
                       index + Len(query) + ContextWidth)]

\* start = index + len(search_lower): the search goes on after the match
start_after_match(index, search_lower) == index + Len(search_lower)

\* start = index + 1, whatever the query
next_start(index, search_lower) == index + 1

---------------------------------------------------------------------------
(* SpecSearch: search_in_document on every text of at most MaxSearchLen    *)
(* characters and every query of at most MaxQueryLen characters over       *)
(* SearchChars, one pass of the loop at a time.  FairSpecSearch adds that  *)
(* the function goes on running while it has a step to take: it is         *)
(* sequential code without a suspension point.                             *)

SearchChars == {"a", "A", DottedI}

InitSearch ==
    /\ text_content = Str(<<>>)
    /\ options = NoOptions
    /\ top_n = 0
    /\ max_sentences = 0
    /\ document_data = NoDocument
    /\ pc = "call"
    /\ result = NoResult
    /\ actor_input = NoInput
    /\ request \in {[search_query |-> Str(query)] : query \in SeqsUpTo(SearchChars, MaxQueryLen)}
    /\ locals = NoLocals
    /\ trace = NoCalls
    /\ document \in {Str(s) : s \in SeqsUpTo(SearchChars, MaxSearchLen)}

\* lines 322-328: the text is fetched, the query and the text are lowered
SearchInDocumentCall ==
    /\ pc = "call"
    /\ \E served \in BOOLEAN :
          /\ trace' = Append(trace, [callee |-> "client", call |-> "get_document_text",
                                     ok |-> served])
          /\ IF served
             THEN /\ locals' = [text_content |-> document.value,
                                matches |-> <<>>,
                                start |-> 0,
                                search_lower |-> lower_str(request.search_query.value),
                                text_lower |-> lower_str(document.value)]
                  /\ pc' = "loop"
                  /\ UNCHANGED result
             ELSE /\ result' = Raised("Exception")
                  /\ pc' = "done"
                  /\ UNCHANGED locals
    /\ UNCHANGED <<text_content, options, top_n, max_sentences, document_data>>
    /\ UNCHANGED <<actor_input, request, document>>

\* lines 330-342: one pass of "while True", and the return after the break.
\* A list of matches has no more entries than the text has indices.
SearchInDocumentPass ==
    /\ pc = "loop"
    /\ Len(locals.matches) <= Len(locals.text_lower) + 1
    /\ LET index == find(locals.text_lower, locals.search_lower, locals.start)
       IN  IF index = -1
           THEN /\ result' = Returned(locals.matches)
                /\ pc' = "done"
                /\ UNCHANGED locals
           ELSE /\ locals' = [locals EXCEPT
                                 !.matches = Append(@, match_at(locals.text_content,
                                                 request.search_query.value, index)),
                                 !.start = next_start(index, locals.search_lower)]
                /\ UNCHANGED <<pc, result>>
    /\ UNCHANGED <<text_content, options, top_n, max_sentences, document_data>>
    /\ UNCHANGED <<actor_input, request, trace, document>>

NextSearch == SearchInDocumentCall \/ SearchInDocumentPass

SpecSearch == InitSearch /\ [][NextSearch]_vars

FairSpecSearch == SpecSearch /\ WF_vars(NextSearch)

SearchDone == pc = "done"

SearchReturned == SearchDone /\ result.exc = ""

\* the indices at which the lower-cased query occurs in the lower-cased text
Occurrences28 ==
    LET lowered == lower_str(document.value)
        query == lower_str(request.search_query.value)
    IN  {p \in 0..Len(lowered) :
            /\ p + Len(query) <= Len(lowered)
            /\ \A k \in 1..Len(query) : lowered[p + k] = query[k]}

\* C28: search_in_document ends for every text and every query, the empty
\* one too, and when it returns its matches are, in increasing order of
\* position, one for each index at which the lower-cased query occurs in
\* the lower-cased text; occurrences that overlap are all there.
C28_SearchEndsWithEveryOccurrence ==
    /\ <>SearchDone
    /\ [](SearchReturned =>
            /\ Len(result.val) = Cardinality(Occurrences28)
            /\ \A k \in 1..Len(result.val) :
                  result.val[k].position = Ascending(Occurrences28)[k])

\* two occurrences that overlap, found in a text of mixed case
C28_Witness ==
    /\ SearchReturned
    /\ document.value = <<"a", "A", "a">>
    /\ request.search_query.value = <<"A", "a">>
    /\ Len(result.val) = 2
    /\ result.val[1].position = 0
    /\ result.val[2].position = 1
    /\ result.val[2].text = <<"A", "a">>

---------------------------------------------------------------------------
(* GoogleDocsClient.write_to_document (google_docs_client.py).  The        *)
(* document of the service is the text of its body, which ends with a line *)
(* break; its characters have the indices 1, 2, ... and the endIndex of    *)
(* its last element is one more than its length.  A request to the service *)
(* is applied or fails with HttpError; a request that the service cannot   *)
(* apply (an empty range, an index outside the text, an empty text) fails. *)

\* the most characters of a document before its last line break
MaxDocLen == 2

\* doc['body']['content'][-1]['endIndex']
end_index_of(text) == Len(text) + 1

\* the branch of "if position:" taken when a location is looked at first
branch_location_first(position) ==
    IF position = None \/ DOMAIN position.value = {} THEN "start"
    ELSE IF get(position.value, "location", None) = Word("end") THEN "end"
    ELSE IF get(position.value, "location", None) = Word("replace_all") THEN "replace_all"
    ELSE IF "index" \in DOMAIN position.value THEN "index"
    ELSE "start"

\* the branch of "if position:" that is taken (lines 183-208); "start" is
\* the default, insert_index = 1
branch(position) ==
    IF position = None \/ DOMAIN position.value = {} THEN "start"
    ELSE IF "index" \in DOMAIN position.value THEN "index"
    ELSE IF get(position.value, "location", None) = Word("end") THEN "end"
    ELSE IF get(position.value, "location", None) = Word("replace_all") THEN "replace_all"
    ELSE "start"

\* the request of lines 194-203
delete_request(end_index) ==
    [kind |-> "deleteContentRange", startIndex |-> 1, endIndex |-> end_index - 1]

\* the requests of lines 211-247: the insert and, with a text style, its
\* formatting
insert_requests(insert_index, content, formatting) ==
    <<[kind |-> "insertText", index |-> insert_index, text |-> content]>> \o
    (IF formatting # None /\ Truthy(get(formatting.value, "bold", "False"))
     THEN <<[kind |-> "updateTextStyle", startIndex |-> insert_index,
             endIndex |-> insert_index + Len(content)]>>
     ELSE <<>>)

\* the service can apply the request to the text
applicable(text, req) ==
    IF req.kind = "deleteContentRange"
    THEN 1 <= req.startIndex /\ req.startIndex < req.endIndex /\ req.endIndex <= Len(text)
    ELSE IF req.kind = "insertText"
    THEN 1 <= req.index /\ req.index <= Len(text) /\ req.text # <<>>
    ELSE TRUE

\* the text after the request
applied(text, req) ==
    IF req.kind = "deleteContentRange"
    THEN SubSeq(text, 1, req.startIndex - 1) \o SubSeq(text, req.endIndex, Len(text))
    ELSE IF req.kind = "insertText"
    THEN SubSeq(text, 1, req.index - 1) \o req.text \o SubSeq(text, req.index, Len(text))
    ELSE text

\* batchUpdate: the requests are applied in order, all or none
RECURSIVE batch_applicable(_, _)
batch_applicable(text, reqs) ==
    IF reqs = <<>> THEN TRUE
    ELSE applicable(text, Head(reqs)) /\ batch_applicable(applied(text, Head(reqs)), Tail(reqs))

RECURSIVE batch_applied(_, _)
batch_applied(text, reqs) ==
    IF reqs = <<>> THEN text ELSE batch_applied(applied(text, Head(reqs)), Tail(reqs))

\* the dict returned by lines 255-261
write_result(document_id, content, insert_index) ==
    [success |-> TRUE, documentId |-> document_id, insertedText |-> content,
     position |-> insert_index]

---------------------------------------------------------------------------
(* SpecWrite: write_to_document on the documents of at most MaxDocLen      *)
(* characters, one request to the service at a time.                       *)

WritePositions ==
    {None,
     Dict(<<>>),
     Dict([index |-> Num(2)]),
     Dict([index |-> Num(1), location |-> Word("replace_all")]),
     Dict([index |-> Num(1), location |-> Word("end")]),
     Dict([location |-> Word("end")]),
     Dict([location |-> Word("replace_all")]),
     Dict([location |-> Word("start")])}

WriteContents == {<<>>, <<"x">>, <<"x", "y">>}

WriteFormattings == {None, Dict([bold |-> "True"])}

DocumentTexts == {Append(s, "\n") : s \in SeqsUpTo({"a", "b"}, MaxDocLen)}

InitWrite ==
    /\ text_content = Str(<<>>)
    /\ options = NoOptions
    /\ top_n = 0
    /\ max_sentences = 0
    /\ document_data = NoDocument
    /\ pc = "call"
    /\ result = NoResult
    /\ actor_input = NoInput
    /\ request \in {[document_id |-> Word("d1"), content |-> c, position |-> p,
                     formatting |-> f] :
                       c \in WriteContents, p \in WritePositions, f \in WriteFormattings}
    /\ locals = NoLocals
    /\ trace = NoCalls
    /\ document \in {Str(s) : s \in DocumentTexts}

\* an entry of the trace for a request to the service
Requested(call, arg, ok) == [callee |-> "service", call |-> call, arg |-> arg, ok |-> ok]

\* lines 181-193: the position is looked at and, for 'end' and
\* 'replace_all', the document is read
WriteToDocumentCall ==
    /\ pc = "call"
    /\ LET taken == branch(request.position)
       IN  IF taken \in {"start", "index"}
           THEN /\ locals' = [insert_index |->
                                 IF taken = "index"
                                 THEN request.position.value["index"].value ELSE 1]
                /\ pc' = "insert"
                /\ UNCHANGED <<result, trace>>
           ELSE \E served \in BOOLEAN :
                   /\ trace' = Append(trace,
                                  Requested("get", end_index_of(document.value), served))
                   /\ IF ~served
                      THEN /\ result' = Raised("Exception")
                           /\ pc' = "done"
                           /\ UNCHANGED locals
                      ELSE IF taken = "end"
                      THEN /\ locals' = [insert_index |-> end_index_of(document.value) - 1]
                           /\ pc' = "insert"
                           /\ UNCHANGED result
                      ELSE /\ locals' = [end_index |-> end_index_of(document.value)]
                           /\ pc' = "delete"
                           /\ UNCHANGED result
    /\ UNCHANGED <<text_content, options, top_n, max_sentences, document_data>>
    /\ UNCHANGED <<actor_input, request, document>>

\* lines 194-208: the batchUpdate with the delete
WriteToDocumentDelete ==
    /\ pc = "delete"
    /\ LET requests == <<delete_request(locals.end_index)>>
       IN  \E served \in {ok \in BOOLEAN : ok => batch_applicable(document.value, requests)} :
              /\ trace' = Append(trace, Requested("batchUpdate", requests, served))
              /\ IF served
                 THEN /\ document' = Str(batch_applied(document.value, requests))
                      /\ locals' = [insert_index |-> 1]
                      /\ pc' = "insert"
                      /\ UNCHANGED result
                 ELSE /\ result' = Raised("Exception")
                      /\ pc' = "done"
                      /\ UNCHANGED <<locals, document>>
    /\ UNCHANGED <<text_content, options, top_n, max_sentences, document_data>>
    /\ UNCHANGED <<actor_input, request>>

\* lines 210-264: the batchUpdate with the insert, and the return
WriteToDocumentInsert ==
    /\ pc = "insert"
    /\ LET requests == insert_requests(locals.insert_index, request.content,
                                       request.formatting)
       IN  \E served \in {ok \in BOOLEAN : ok => batch_applicable(document.value, requests)} :
              /\ trace' = Append(trace, Requested("batchUpdate", requests, served))
              /\ IF served
                 THEN /\ document' = Str(batch_applied(document.value, requests))
                      /\ result' = Returned(write_result(request.document_id,
                                        request.content, locals.insert_index))
                 ELSE /\ result' = Raised("Exception")
                      /\ UNCHANGED document
    /\ pc' = "done"
    /\ UNCHANGED <<text_content, options, top_n, max_sentences, document_data>>
    /\ UNCHANGED <<actor_input, request, locals>>

NextWrite == WriteToDocumentCall \/ WriteToDocumentDelete \/ WriteToDocumentInsert

SpecWrite == InitWrite /\ [][NextWrite]_vars

WriteDone == pc = "done"

\* the update requests sent so far, in order
Updates == SelectSeq(trace, LAMBDA e : e.call = "batchUpdate")

\* the reads of the document made so far
Reads == SelectSeq(trace, LAMBDA e : e.call = "get")

HasIndex == request.position # None /\ "index" \in DOMAIN request.position.value

LocationIs(name) ==
    /\ request.position # None
    /\ "location" \in DOMAIN request.position.value
    /\ request.position.value["location"] = Word(name)

\* the update is the insert of the content at the index, alone or with its
\* formatting
IsInsertAt(update, index) ==
    /\ update.arg[1] = [kind |-> "insertText", index |-> index, text |-> request.content]
    /\ \A k \in 2..Len(update.arg) : update.arg[k].kind = "updateTextStyle"

\* C29: with the location 'replace_all' and no index, the first update sent
\* is the delete of the range [1, endIndex - 1) of the document read, alone
\* in its request, and the insert at index 1 is sent as a second update only
\* after the delete was applied; a position with an index inserts there
\* whatever its location, without a read or a delete; without a position
\* the insert is at index 1.  When the insert fails after the delete was
\* applied, the call raises and the document is left without its previous
\* content.
C29_DeleteThenInsert ==
    /\ Len(Updates) <= 2
    /\ (LocationIs("replace_all") /\ ~HasIndex) =>
          /\ Len(Updates) >= 1 =>
                /\ Len(Reads) = 1 /\ Reads[1].ok
                /\ Updates[1].arg =
                      <<[kind |-> "deleteContentRange", startIndex |-> 1,
                         endIndex |-> Reads[1].arg - 1]>>
          /\ Len(Updates) = 2 =>
                /\ Updates[1].ok
                /\ IsInsertAt(Updates[2], 1)
          /\ (WriteDone /\ Len(Updates) = 2 /\ ~Updates[2].ok) =>
                /\ result.exc # ""
                /\ document.value = <<"\n">>
          /\ (WriteDone /\ result.exc = "") => Len(Updates) = 2
    /\ HasIndex =>
          /\ Reads = <<>>
          /\ Len(Updates) <= 1
          /\ Len(Updates) = 1 =>
                IsInsertAt(Updates[1], request.position.value["index"].value)
          /\ WriteDone => Len(Updates) = 1
    /\ (request.position = None /\ WriteDone) =>
          /\ Reads = <<>>
          /\ Len(Updates) = 1
          /\ IsInsertAt(Updates[1], 1)

\* the delete emptied a document of two characters and the insert failed
C29_Witness ==
    /\ WriteDone
    /\ LocationIs("replace_all") /\ ~HasIndex
    /\ Len(Updates) = 2
    /\ Updates[1].ok /\ ~Updates[2].ok
    /\ Reads[1].arg = 4
    /\ result.exc = "Exception"
    /\ document.value = <<"\n">>

---------------------------------------------------------------------------
(* main and execute_operation (main.py).  The trace holds, in order, the   *)
(* construction of the client, the execution of the operation and the      *)
(* calls of Actor.fail and Actor.push_data.                                *)

\* bool(v) is False: None, '', {} and []
is_falsy(v) == v = None \/ v.value = <<>>

\* "await Actor.get_input() or {}"
or_empty(input) == IF is_falsy(input) THEN <<>> ELSE input.value

\* the credentials check that lets every input pass
has_any_credentials(input) == TRUE

\* line 33, negated: actor_input.get('googleCredentials') is truthy
has_credentials(input) == ~is_falsy(get(input, "googleCredentials", None))

\* GoogleDocsClient.__init__ and _authenticate: the exception raised, or ""
\* when the services are built; accepted tells whether the Google libraries
\* take the credentials
authenticate(credentials_config, accepted) ==
    IF credentials_config.type # "dict" THEN "AttributeError"
    ELSE LET config == credentials_config.value
             cred_type == get(config, "type", Word("service_account"))
         IN  IF cred_type = Word("service_account")
             THEN IF is_falsy(get(config, "serviceAccountJson", None)) \/ ~accepted
                  THEN "Exception" ELSE ""
             ELSE IF cred_type = Word("oauth2")
             THEN IF is_falsy(get(config, "oauthToken", None)) \/ ~accepted
                  THEN "Exception" ELSE ""
             ELSE "Exception"

\* the names execute_operation dispatches on, in the order of its tests
operations ==
    <<"read_document", "write_document", "create_document", "update_document",
      "list_documents", "analyze_document", "search_content", "batch_operations",
      "mcp_server">>

\* the inputs an operation refuses to run without
required_inputs(operation) ==
    CASE operation \in {"read_document", "update_document", "analyze_document"} ->
            {"documentId"}
      [] operation = "write_document" -> {"documentId", "content"}
      [] operation = "search_content" -> {"documentId", "searchQuery"}
      [] operation = "batch_operations" -> {"batchOperations"}
      [] OTHER -> {}

\* the operation lets an exception of the client out: mcp_server calls no
\* client and batch_operations records the exception in the entry of its op
raises_client_errors(operation) == operation \notin {"batch_operations", "mcp_server"}

\* execute_operation(operation, actor_input, ...): the exception raised, or
\* the dict returned; served tells whether the client's calls return
execute_operation(operation, input, served) ==
    IF ~\E i \in 1..Len(operations) : operation = Word(operations[i])
    THEN Raised("ValueError")
    ELSE LET name == operation.value[1]
         IN  IF \E key \in required_inputs(name) : is_falsy(get(input, key, None))
             THEN Raised("ValueError")
             ELSE IF raises_client_errors(name) /\ ~served
             THEN Raised("Exception")
             ELSE Returned(Dict([operation |-> operation]))

---------------------------------------------------------------------------
(* SpecMain: one run of main.                                              *)

MainCredentials ==
    {None,
     Dict(<<>>),
     Word("key"),
     Dict([serviceAccountJson |-> Word("json")]),
     Dict([type |-> Word("service_account")]),
     Dict([type |-> Word("oauth2"), oauthToken |-> Word("token")]),
     Dict([type |-> Word("api_key")])}

MainOperations ==
    {Word(operations[i]) : i \in 1..Len(operations)} \cup {Word("delete_document"), None}

\* the inputs of the operations, all given
OperationInputs ==
    [documentId |-> Word("d1"), content |-> Word("hi"), searchQuery |-> Word("hi"),
     batchOperations |-> List(<<Dict([operation |-> Word("read"),
                                      documentId |-> Word("d1")])>>)]

MainInputs ==
    {None, Dict(<<>>)} \cup
    {Dict(d) : d \in
        {[googleCredentials |-> c] : c \in MainCredentials} \cup
        {[operation |-> o] : o \in MainOperations} \cup
        {[googleCredentials |-> c, operation |-> o] :
            c \in MainCredentials, o \in MainOperations} \cup
        {[googleCredentials |-> c, operation |-> o] @@ OperationInputs :
            c \in MainCredentials, o \in MainOperations}}

InitMain ==
    /\ text_content = Str(<<>>)
    /\ options = NoOptions
    /\ top_n = 0
    /\ max_sentences = 0
    /\ document_data = NoDocument
    /\ pc = "enter"
    /\ result = NoResult
    /\ actor_input = NoInput
    /\ request \in {[input |-> i] : i \in MainInputs}
    /\ locals = NoLocals
    /\ trace = NoCalls
    /\ document = NoText

\* an entry of the trace
Event(callee, call, arg, ok) == [callee |-> callee, call |-> call, arg |-> arg, ok |-> ok]

Failed(message) == Event("Actor", "fail", Word(message), TRUE)

MissingCredentials == "Missing required parameter: googleCredentials"

\* lines 25-36: the input is read and its credentials are looked at
MainEnter ==
    /\ pc = "enter"
    /\ actor_input' = or_empty(request.input)
    /\ IF has_credentials(actor_input')
       THEN /\ pc' = "authenticate"
            /\ UNCHANGED <<result, trace>>
       ELSE /\ trace' = Append(trace, Failed(MissingCredentials))
            /\ result' = Returned(None)
            /\ pc' = "done"
    /\ UNCHANGED <<text_content, options, top_n, max_sentences, document_data>>
    /\ UNCHANGED <<request, locals, document>>

\* lines 38-48, 66-68: the client is constructed, which authenticates
MainAuthenticate ==
    /\ pc = "authenticate"
    /\ \E accepted \in BOOLEAN :
          LET raised == authenticate(actor_input["googleCredentials"], accepted)
              made == Event("GoogleDocsClient", "__init__",
                            actor_input["googleCredentials"], raised = "")
          IN  IF raised = ""
              THEN /\ trace' = Append(trace, made)
                   /\ locals' = [operation |-> get(actor_input, "operation",
                                                    Word("mcp_server"))]
                   /\ pc' = "execute"
                   /\ UNCHANGED result
              ELSE /\ trace' = trace \o <<made, Failed(raised)>>
                   /\ result' = Returned(None)
                   /\ pc' = "done"
                   /\ UNCHANGED locals
    /\ UNCHANGED <<text_content, options, top_n, max_sentences, document_data>>
    /\ UNCHANGED <<actor_input, request, document>>

\* lines 51-57, 66-68 and 90-120: the operation is executed
MainExecute ==
    /\ pc = "execute"
    /\ \E served \in BOOLEAN :
          LET outcome == execute_operation(locals.operation, actor_input, served)
              executed == Event("main", "execute_operation", locals.operation,
                                outcome.exc = "")
          IN  IF outcome.exc # ""
              THEN /\ trace' = trace \o <<executed, Failed(outcome.exc)>>
                   /\ result' = Returned(None)
                   /\ pc' = "done"
                   /\ UNCHANGED locals
              ELSE /\ trace' = Append(trace, executed)
                   /\ locals' = [operation |-> locals.operation, result |-> outcome.val]
                   /\ IF is_falsy(outcome.val)
                      THEN result' = Returned(None) /\ pc' = "done"
                      ELSE pc' = "push" /\ UNCHANGED result
    /\ UNCHANGED <<text_content, options, top_n, max_sentences, document_data>>
    /\ UNCHANGED <<actor_input, request, document>>

\* lines 59-68: the result is pushed to the dataset
MainPush ==
    /\ pc = "push"
    /\ \E stored \in BOOLEAN :
          LET pushed == Event("Actor", "push_data", locals.result, stored)
          IN  trace' = IF stored THEN Append(trace, pushed)
                       ELSE trace \o <<pushed, Failed("Exception")>>
    /\ result' = Returned(None)
    /\ pc' = "done"
    /\ UNCHANGED <<text_content, options, top_n, max_sentences, document_data>>
    /\ UNCHANGED <<actor_input, request, locals, document>>

NextMain == MainEnter \/ MainAuthenticate \/ MainExecute \/ MainPush

SpecMain == InitMain /\ [][NextMain]_vars

MainDone == pc = "done"

\* the input has no googleCredentials
NoCredentials ==
    \/ request.input = None
    \/ "googleCredentials" \notin DOMAIN request.input.value
    \/ request.input.value["googleCredentials"] = None

IsCall(i, call) == trace[i].call = call

\* the data of a push_data that returned is in the dataset
DataPushed == \E i \in 1..Len(trace) : IsCall(i, "push_data") /\ trace[i].ok

RunFailed == \E i \in 1..Len(trace) : IsCall(i, "fail")

\* C30: without googleCredentials the run, once past the check, has failed
\* with the message of the missing parameter and nothing else was called.
\* Otherwise the operation is executed only after a client was constructed,
\* push_data is called only after the operation returned a non-empty
\* result, with that result, and whenever the construction, the operation
\* or the push raised the run is failed right after it and no data is
\* pushed.
C30_MainFailsOrPushes ==
    /\ (NoCredentials /\ pc # "enter") =>
          /\ MainDone
          /\ trace = <<Failed(MissingCredentials)>>
    /\ \A i \in 1..Len(trace) :
          /\ IsCall(i, "execute_operation") =>
                \E j \in 1..(i - 1) : IsCall(j, "__init__") /\ trace[j].ok
          /\ IsCall(i, "push_data") =>
                /\ i > 1
                /\ IsCall(i - 1, "execute_operation") /\ trace[i - 1].ok
                /\ ~is_falsy(trace[i].arg)
                /\ trace[i].arg = locals.result
          /\ ~trace[i].ok =>
                /\ i < Len(trace)
                /\ IsCall(i + 1, "fail")
                /\ MainDone
                /\ ~DataPushed
    /\ RunFailed => (MainDone /\ ~DataPushed /\ IsCall(Len(trace), "fail"))
    /\ Len(SelectSeq(trace, LAMBDA e : e.call = "push_data")) <= 1

\* a client was constructed and the operation raised: the run has failed and
\* nothing was pushed
C30_Witness ==
    /\ MainDone
    /\ ~NoCredentials
    /\ Len(trace) = 3
    /\ IsCall(1, "__init__") /\ trace[1].ok
    /\ IsCall(2, "execute_operation") /\ ~trace[2].ok
    /\ trace[2].arg = Word("read_document")
    /\ trace[3] = Failed("Exception")

\* the run that ends with the result of its operation in the dataset
MainPushed ==
    /\ MainDone
    /\ Len(trace) = 3
    /\ IsCall(3, "push_data") /\ trace[3].ok
    /\ ~RunFailed

=============================================================================
